---- MODULE Spec2Model ----
(***************************************************************************)
(* A model of astrbot_plugin_parser: the pattern registry and the match    *)
(* scan of ParserPlugin (main.py), the lazily resolved media references    *)
(* and the resource fingerprint of the content model (core/data.py).       *)
(*                                                                         *)
(* Strings are sequences of one-character strings, so that len(), the      *)
(* substring test `kw in text`, re.search and str().encode() are computed  *)
(* character by character, as the code computes them.                      *)
(***************************************************************************)
EXTENDS Integers, Sequences, FiniteSets, TLC

VARIABLES
    \* ---- ParserPlugin (main.py) ----
    enable_platforms,   \* config["enable_platforms"]
    disabled_sessions,  \* config["disabled_sessions"]
    all_subclass,       \* BaseParser.get_all_subclass(), in its order
    handle_order,       \* the order @handle leaves cls._key_patterns in
    initialized,        \* initialize() has run _register_parser
    parser_map,         \* keyword -> parser instance
    key_pattern_list,   \* ordered list of (keyword, pattern)
    pc,                 \* per on_message call: where the coroutine stands
    event,              \* per on_message call: the event being handled
    keyword,            \* per on_message call: local `keyword`
    searched,           \* per on_message call: local `searched`
    scanlog,            \* per on_message call: what the scan evaluated
    \* ---- a resolvable media reference (core/data.py) ----
    field,              \* which field it is: path_task, cover or avatar
    ref,                \* the field's value: None, a Path or a Task
    task,               \* the Task behind it: its state and result
    fetches,            \* how often the Task's coroutine has been started
    wpc,                \* per get_path call: where the coroutine stands
    wret,               \* per get_path call: the value it returned
    wsusp,              \* per get_path call: whether it suspended
    delivered,          \* the values get_path calls have returned so far
    \* ---- ParseResult objects and their fingerprint (core/data.py) ----
    results,            \* the ParseResult objects, by name
    rets,               \* per object: the values get_resource_id returned
    hashcount,          \* per object: how many blake2b hashers its calls built
    stream,             \* per object: the bytes fed to the hasher of its id
    moved,              \* per object: a reference resolved after its id was stored
    \* ---- DouyinParser (core/parsers/douyin/__init__.py) ----
    douyin_ck,          \* self.douyin_ck
    ios_headers,        \* self.ios_headers: its "Cookie" entry, if any
    android_headers,    \* self.android_headers: its "Cookie" entry, if any
    cookies_file,       \* douyin_cookies.json: the "cookie" it records, if the file exists
    merged_headers,     \* the argument of the latest _update_cookies_from_response call
    dpc,                \* per parse call: where the coroutine stands
    frame,              \* per parse call: the locals of the running method
    trace,              \* per parse call: the requests it made and what came back
    outcome,            \* per parse call: what it returned or raised
    \* ---- InstagramParser (core/parsers/instagram.py) ----
    ipc,                \* where the _parse call stands
    final_url,          \* _parse: final_url
    info,               \* _parse: info, the dict _extract_info returns
    entry_i,            \* _parse: the entry the loop is at (0: past the loop)
    ig_contents,        \* _parse: contents
    origins,            \* per content: the entry it was made from (0: the post)
    meta_entry,         \* _parse: meta_entry, as the number of the entry (0: None)
    fallback_video_tried, \* _parse: fallback_video_tried
    attempt,            \* attempt of the retry loop that runs
    cache_dir,          \* downloader.cache_dir: the output files that exist
    pending,            \* the merges handed to the downloader and not ended
    ilog,               \* what the _parse call did, in order
    ig_outcome,         \* what the _parse call returned or raised
    \* ---- ParserPlugin.on_message past the match (main.py) ----
    steps               \* per on_message call: what it did past the scan

regVars == <<enable_platforms, disabled_sessions, all_subclass, handle_order, initialized,
             parser_map, key_pattern_list, pc, event, keyword, searched, scanlog>>

resVars == <<field, ref, task, fetches, wpc, wret, wsusp, delivered>>

fpVars == <<results, rets, hashcount, stream, moved>>

dyVars == <<douyin_ck, ios_headers, android_headers, cookies_file, merged_headers,
            dpc, frame, trace, outcome>>

igVars == <<ipc, final_url, info, entry_i, ig_contents, origins, meta_entry,
            fallback_video_tried, attempt, cache_dir, pending, ilog, ig_outcome>>

plVars == <<steps>>

vars == <<regVars, resVars, fpVars, dyVars, igVars, plVars>>

None == "None"

\* ------------------------------------------------------------------------
\* Bounds
\* ------------------------------------------------------------------------

\* Number of on_message coroutines that may be in flight at once.
NumCallers == 2

Callers == 1..NumCallers

\* Number of coroutines that may call get_path on the same reference.
NumWaiters == 2

Waiters == 1..NumWaiters

\* Longest contents list of a ParseResult.
MaxContents == 2

\* ------------------------------------------------------------------------
\* Characters and strings
\* ------------------------------------------------------------------------

Lower == {"a","b","c","d","e","f","g","h","i","j","k","l","m",
          "n","o","p","q","r","s","t","u","v","w","x","y","z"}
Upper == {"A","B","C","D","E","F","G","H","I","J","K","L","M",
          "N","O","P","Q","R","S","T","U","V","W","X","Y","Z"}
Digit == {"0","1","2","3","4","5","6","7","8","9"}

\* text[pos .. pos+Len(s)-1] = s
HasPrefixAt(text, pos, s) ==
    /\ pos + Len(s) - 1 <= Len(text)
    /\ \A i \in 1..Len(s) : text[pos + i - 1] = s[i]

\* Python's `kw in text` on str
Contains(text, kw) ==
    \E i \in 1..(Len(text) - Len(kw) + 1) : HasPrefixAt(text, i, kw)

\* ------------------------------------------------------------------------
\* Regular expressions: the fragment of `re` the registered patterns use.
\* A pattern is a sequence of elements: a literal string, `.`, an
\* alternation of literal strings, an optional literal string, or a
\* character class repeated one or more times (greedy).
\* ------------------------------------------------------------------------

Lit(s)    == [t |-> "lit",  s |-> s,    alts |-> <<>>, cls |-> {}]
Dot       == [t |-> "dot",  s |-> <<>>, alts |-> <<>>, cls |-> {}]
Alt(alts) == [t |-> "alt",  s |-> <<>>, alts |-> alts, cls |-> {}]
Opt(s)    == [t |-> "opt",  s |-> s,    alts |-> <<>>, cls |-> {}]
Plus(cls) == [t |-> "plus", s |-> <<>>, alts |-> <<>>, cls |-> cls]

\* Length of the longest run of characters of cls starting at text[pos].
RECURSIVE RunLen(_, _, _)
RunLen(text, pos, cls) ==
    IF pos <= Len(text) /\ text[pos] \in cls
    THEN 1 + RunLen(text, pos + 1, cls)
    ELSE 0

\* MatchAt(pat, k, text, pos): elements k.. of pat matched against text from
\* position pos, with re's backtracking order (leftmost alternative first,
\* greedy repetition). The position after the match, or 0 when none exists.
RECURSIVE MatchAt(_, _, _, _)
RECURSIVE TryAlts(_, _, _, _, _)
RECURSIVE TryPlus(_, _, _, _, _)

TryAlts(pat, k, text, pos, a) ==
    IF a > Len(pat[k].alts) THEN 0
    ELSE LET s == pat[k].alts[a]
             r == IF HasPrefixAt(text, pos, s)
                  THEN MatchAt(pat, k + 1, text, pos + Len(s))
                  ELSE 0
         IN  IF r # 0 THEN r ELSE TryAlts(pat, k, text, pos, a + 1)

TryPlus(pat, k, text, pos, n) ==
    IF n < 1 THEN 0
    ELSE LET r == MatchAt(pat, k + 1, text, pos + n)
         IN  IF r # 0 THEN r ELSE TryPlus(pat, k, text, pos, n - 1)

MatchAt(pat, k, text, pos) ==
    IF k > Len(pat) THEN pos
    ELSE LET e == pat[k] IN
         CASE e.t = "lit" ->
                IF HasPrefixAt(text, pos, e.s)
                THEN MatchAt(pat, k + 1, text, pos + Len(e.s))
                ELSE 0
           [] e.t = "dot" ->
                IF pos <= Len(text) /\ text[pos] # "\n"
                THEN MatchAt(pat, k + 1, text, pos + 1)
                ELSE 0
           [] e.t = "alt" -> TryAlts(pat, k, text, pos, 1)
           [] e.t = "opt" ->
                LET r == IF HasPrefixAt(text, pos, e.s)
                         THEN MatchAt(pat, k + 1, text, pos + Len(e.s))
                         ELSE 0
                IN  IF r # 0 THEN r ELSE MatchAt(pat, k + 1, text, pos)
           [] e.t = "plus" ->
                TryPlus(pat, k, text, pos, RunLen(text, pos, e.cls))

\* re.Pattern.search: the leftmost position where the pattern matches.
\* The match object is modelled by its start and group(0); NoMatch is the
\* None that search returns when the pattern matches nowhere.
NoMatch == [start |-> 0, group0 |-> <<>>]

RECURSIVE SearchFrom(_, _, _)
SearchFrom(pat, text, start) ==
    IF start > Len(text) + 1 THEN NoMatch
    ELSE LET r == MatchAt(pat, 1, text, start)
         IN  IF r # 0
             THEN [start |-> start, group0 |-> SubSeq(text, start, r - 1)]
             ELSE SearchFrom(pat, text, start + 1)

Search(pat, text) == SearchFrom(pat, text, 1)


\* ------------------------------------------------------------------------
\* The (keyword, pattern) bindings the parser classes declare with @handle
\* ------------------------------------------------------------------------

KW_v_douyin ==
    <<"v",".","d","o","u","y","i","n">>
KW_jx_douyin ==
    <<"j","x",".","d","o","u","y","i","n">>
KW_douyin ==
    <<"d","o","u","y","i","n">>
KW_iesdouyin ==
    <<"i","e","s","d","o","u","y","i","n">>
KW_m_douyin ==
    <<"m",".","d","o","u","y","i","n">>
KW_jingxuan_douyin ==
    <<"j","i","n","g","x","u","a","n",".","d","o","u","y","i","n">>
KW_instagram_com ==
    <<"i","n","s","t","a","g","r","a","m",".","c","o","m">>
KW_instagr_am ==
    <<"i","n","s","t","a","g","r",".","a","m">>

W_video  == <<"v","i","d","e","o">>
W_note   == <<"n","o","t","e">>
W_slides == <<"s","l","i","d","e","s">>
W_p      == <<"p">>
W_reel   == <<"r","e","e","l">>
W_reels  == <<"r","e","e","l","s">>
W_tv     == <<"t","v">>
W_share  == <<"s","h","a","r","e">>

\* [a-zA-Z0-9_\-]
ShortIdChars == Lower \cup Upper \cup Digit \cup {"_", "-"}
\* [A-Za-z0-9._?%&=+\-/#]
IgPathChars ==
    Lower \cup Upper \cup Digit \cup {".", "_", "?", "%", "&", "=", "+", "-", "/", "#"}

\* r"v\.douyin\.com/[a-zA-Z0-9_\-]+"
PAT_v_douyin ==
    << Lit(<<"v",".","d","o","u","y","i","n",".","c","o","m","/">>),
       Plus(ShortIdChars) >>
\* r"jx\.douyin\.com/[a-zA-Z0-9_\-]+"
PAT_jx_douyin ==
    << Lit(<<"j","x",".","d","o","u","y","i","n",".","c","o","m","/">>),
       Plus(ShortIdChars) >>
\* r"douyin\.com/(?P<ty>video|note)/(?P<vid>\d+)"
PAT_douyin ==
    << Lit(<<"d","o","u","y","i","n",".","c","o","m","/">>),
       Alt(<<W_video, W_note>>), Lit(<<"/">>), Plus(Digit) >>
\* r"iesdouyin\.com/share/(?P<ty>slides|video|note)/(?P<vid>\d+)"
PAT_iesdouyin ==
    << Lit(<<"i","e","s","d","o","u","y","i","n",".","c","o","m","/","s","h","a","r","e","/">>),
       Alt(<<W_slides, W_video, W_note>>), Lit(<<"/">>), Plus(Digit) >>
\* r"m\.douyin\.com/share/(?P<ty>slides|video|note)/(?P<vid>\d+)"
PAT_m_douyin ==
    << Lit(<<"m",".","d","o","u","y","i","n",".","c","o","m","/","s","h","a","r","e","/">>),
       Alt(<<W_slides, W_video, W_note>>), Lit(<<"/">>), Plus(Digit) >>
\* r"jingxuan\.douyin.com/m/(?P<ty>slides|video|note)/(?P<vid>\d+)"
\* (the dot before "com" is not escaped: it matches any character)
PAT_jingxuan_douyin ==
    << Lit(<<"j","i","n","g","x","u","a","n",".","d","o","u","y","i","n">>), Dot,
       Lit(<<"c","o","m","/","m","/">>),
       Alt(<<W_slides, W_video, W_note>>), Lit(<<"/">>), Plus(Digit) >>
\* r"https?://(?:www\.)?instagram\.com/(?:p|reel|reels|tv|share)/[A-Za-z0-9._?%&=+\-/#]+"
PAT_instagram_com ==
    << Lit(<<"h","t","t","p">>), Opt(<<"s">>), Lit(<<":","/","/">>),
       Opt(<<"w","w","w",".">>),
       Lit(<<"i","n","s","t","a","g","r","a","m",".","c","o","m","/">>),
       Alt(<<W_p, W_reel, W_reels, W_tv, W_share>>), Lit(<<"/">>),
       Plus(IgPathChars) >>
\* r"https?://(?:www\.)?instagr\.am/(?:p|reel|reels|tv)/[A-Za-z0-9._?%&=+\-/#]+"
PAT_instagr_am ==
    << Lit(<<"h","t","t","p">>), Opt(<<"s">>), Lit(<<":","/","/">>),
       Opt(<<"w","w","w",".">>),
       Lit(<<"i","n","s","t","a","g","r",".","a","m","/">>),
       Alt(<<W_p, W_reel, W_reels, W_tv>>), Lit(<<"/">>),
       Plus(IgPathChars) >>

Binding(kw, pat) == [kw |-> kw, pat |-> pat]

\* The pattern of a further parser class that binds the keyword "douyin"
\* too: douyin.com/live/<digits>.
PAT_extra ==
    << Lit(<<"d","o","u","y","i","n",".","c","o","m","/","l","i","v","e","/">>), Plus(Digit) >>

\* The parser classes of the repository that are modelled, and
\* Platform.display_name of each.
Classes == {"DouyinParser", "InstagramParser"}

DisplayName(cls) ==
    IF cls = "DouyinParser" THEN "Douyin"
    ELSE IF cls = "InstagramParser" THEN "Instagram" ELSE "Extra"

PlatformName(cls) ==
    IF cls = "DouyinParser" THEN "douyin"
    ELSE IF cls = "InstagramParser" THEN "instagram" ELSE "extra"

\* The @handle bindings of a class in the order they are written.
DeclaredBindings(cls) ==
    IF cls = "DouyinParser"
    THEN << Binding(KW_v_douyin, PAT_v_douyin),
            Binding(KW_jx_douyin, PAT_jx_douyin),
            Binding(KW_douyin, PAT_douyin),
            Binding(KW_iesdouyin, PAT_iesdouyin),
            Binding(KW_m_douyin, PAT_m_douyin),
            Binding(KW_jingxuan_douyin, PAT_jingxuan_douyin) >>
    ELSE IF cls = "InstagramParser"
    THEN << Binding(KW_instagram_com, PAT_instagram_com),
            Binding(KW_instagr_am, PAT_instagr_am) >>
    ELSE << Binding(KW_douyin, PAT_extra) >>

Reverse(s) == [i \in 1..Len(s) |-> s[Len(s) + 1 - i]]

\* cls._key_patterns. The decorator that collects the bindings fixes their
\* order; decorators apply bottom-up, so the list is either in written order
\* or in the reverse of it.
KeyPatterns(cls, order) ==
    IF order = "written" THEN DeclaredBindings(cls)
    ELSE Reverse(DeclaredBindings(cls))

HandleOrders == {"written", "applied"}


\* ------------------------------------------------------------------------
\* ParserPlugin._register_parser
\* ------------------------------------------------------------------------

\* enabled_classes: the classes whose display name the configuration lists,
\* in the order of all_subclass.
EnabledClasses_all(classes, enabled) == classes

EnabledClasses(classes, enabled) ==
    SelectSeq(classes, LAMBDA c : DisplayName(c) \in enabled)

\* The list comprehension over enabled_classes and cls._key_patterns.
RECURSIVE CollectPatterns(_, _)
CollectPatterns(classes, order) ==
    IF classes = <<>> THEN <<>>
    ELSE KeyPatterns(Head(classes), order) \o CollectPatterns(Tail(classes), order)

\* list.sort(key=lambda x: -len(x[0])): a stable sort, longest keyword first.
\* InsertByLen puts x behind every entry whose keyword is at least as long.
RECURSIVE InsertByLen(_, _)
InsertByLen(x, sorted) ==
    IF sorted = <<>> THEN <<x>>
    ELSE IF Len(Head(sorted).kw) >= Len(x.kw)
         THEN <<Head(sorted)>> \o InsertByLen(x, Tail(sorted))
         ELSE <<x>> \o sorted

SortPatterns_unsorted(patterns) == patterns

RECURSIVE SortPatterns(_)
SortPatterns(patterns) ==
    IF patterns = <<>> THEN <<>>
    ELSE InsertByLen(patterns[Len(patterns)],
                     SortPatterns(SubSeq(patterns, 1, Len(patterns) - 1)))

\* self.parser_map[keyword] = parser
Put(map, k, v) ==
    [x \in (DOMAIN map) \cup {k} |-> IF x = k THEN v ELSE map[x]]

RECURSIVE PutKeywords(_, _, _)
PutKeywords(map, bindings, parser) ==
    IF bindings = <<>> THEN map
    ELSE PutKeywords(Put(map, Head(bindings).kw, parser), Tail(bindings), parser)

\* The loop over enabled_classes: one instance per class, bound to each of
\* the class's keywords. n numbers the instances as they are created.
RECURSIVE BuildParserMap(_, _, _, _)
BuildParserMap(map, classes, order, n) ==
    IF classes = <<>> THEN map
    ELSE LET parser == [cls |-> Head(classes), inst |-> n]
         IN  BuildParserMap(PutKeywords(map, KeyPatterns(Head(classes), order), parser),
                            Tail(classes), order, n + 1)

EmptyMap == [x \in {} |-> None]

\* initialize(): runs _register_parser once the plugin is loaded.
Initialize ==
    /\ ~initialized
    /\ LET enabled_classes == EnabledClasses(all_subclass, enable_platforms)
       IN  /\ parser_map' = BuildParserMap(parser_map, enabled_classes, handle_order, 1)
           /\ key_pattern_list' =
                  SortPatterns(CollectPatterns(enabled_classes, handle_order))
    /\ initialized' = TRUE
    /\ UNCHANGED <<enable_platforms, disabled_sessions, all_subclass, handle_order,
                   pc, event, keyword, searched, scanlog>>
    /\ UNCHANGED <<resVars, fpVars, dyVars, igVars, plVars>>


\* ------------------------------------------------------------------------
\* ParserPlugin.on_message: the guards and the match scan
\* ------------------------------------------------------------------------

\* Message texts the events carry.
T_jx ==
    <<"h","t","t","p","s",":","/","/","j","x",".","d","o","u","y","i","n",".","c","o","m","/","a","b","c">>
T_e2e ==
    <<"c","h","e","c","k"," ","t","h","i","s"," ","o","u","t"," ","h","t","t","p","s",":","/","/","v",".","d","o","u","y","i","n",".","c","o","m","/","a","b","c","1","2","3","X","Y","/">>
T_jxboth ==
    <<"h","t","t","p","s",":","/","/","j","x",".","d","o","u","y","i","n",".","c","o","m","/","a","b","c"," ","d","o","u","y","i","n",".","c","o","m","/","v","i","d","e","o","/","1">>
T_video ==
    <<"h","t","t","p","s",":","/","/","w","w","w",".","d","o","u","y","i","n",".","c","o","m","/","v","i","d","e","o","/","7">>
T_skip ==
    <<"j","x",".","d","o","u","y","i","n"," ","v",".","d","o","u","y","i","n",".","c","o","m","/","a"," ","d","o","u","y","i","n",".","c","o","m","/","n","o","t","e","/","1">>
T_kwonly ==
    <<"s","e","e"," ","j","x",".","d","o","u","y","i","n">>
T_slides ==
    <<"m",".","d","o","u","y","i","n",".","c","o","m","/","s","h","a","r","e","/","s","l","i","d","e","s","/","2">>
T_ies ==
    <<"i","e","s","d","o","u","y","i","n",".","c","o","m","/","s","h","a","r","e","/","n","o","t","e","/","3">>
T_jing ==
    <<"j","i","n","g","x","u","a","n",".","d","o","u","y","i","n","X","c","o","m","/","m","/","v","i","d","e","o","/","4">>
T_ig ==
    <<"h","t","t","p","s",":","/","/","w","w","w",".","i","n","s","t","a","g","r","a","m",".","c","o","m","/","r","e","e","l","s","/","a">>
T_igam ==
    <<"h","t","t","p",":","/","/","i","n","s","t","a","g","r",".","a","m","/","p","/","b">>
T_none ==
    <<"h","e","l","l","o">>

Texts == {T_jx, T_e2e, T_jxboth, T_skip, T_kwonly, T_slides, T_ies,
          T_jing, T_ig, T_igam, T_none}

\* Sessions (unified_msg_origin values); config["disabled_sessions"] lists
\* the second one.
Sessions == {"s1", "s2"}

\* An event: its session (unified_msg_origin), the kind of the first segment
\* of its chain ("none": the chain is empty), message_str, and what
\* extract_json_url yields for a Json card.
Ev(umo, seg1, message_str, json_url) ==
    [umo |-> umo, seg1 |-> seg1, message_str |-> message_str, json_url |-> json_url]

Events ==
    {Ev("s1", "Plain", t, <<>>) : t \in Texts \cup {<<>>}}
    \cup {Ev("s1", "Json", <<>>, T_video), Ev("s1", "At_other", T_jx, <<>>),
          Ev("s1", "none", <<>>, <<>>), Ev("s2", "Plain", T_jx, <<>>)}

NoEvent == Ev("", "none", <<>>, <<>>)

\* text = event.message_str, or the url of the card when seg1 is a Json
EventText(e) == IF e.seg1 = "Json" THEN e.json_url ELSE e.message_str

NoLog == [kwTests |-> {}, reEvals |-> {}, idx |-> 0]

\* The for loop of on_message over key_pattern_list from entry i on:
\* `continue` when the keyword is not in the text, `break` at the first
\* entry whose pattern is found. log records the entries whose keyword was
\* tested and the entries whose pattern was evaluated; idx is the entry the
\* loop stopped at (0: the loop ran to the end).
RECURSIVE ScanFrom_nobreak(_, _, _, _)
ScanFrom_nobreak(list, text, i, acc) ==
    IF i > Len(list) THEN acc
    ELSE LET tested == [acc EXCEPT !.log.kwTests = @ \cup {i}] IN
         IF ~Contains(text, list[i].kw)
         THEN ScanFrom_nobreak(list, text, i + 1, tested)
         ELSE LET m == Search(list[i].pat, text)
                  evald == [tested EXCEPT !.log.reEvals = @ \cup {i}]
              IN  IF m # NoMatch
                  THEN ScanFrom_nobreak(list, text, i + 1,
                           [keyword |-> list[i].kw, searched |-> m,
                            log |-> [evald.log EXCEPT !.idx = i]])
                  ELSE ScanFrom_nobreak(list, text, i + 1, evald)

RECURSIVE ScanFrom(_, _, _, _)
ScanFrom(list, text, i, acc) ==
    IF i > Len(list) THEN acc
    ELSE LET tested == [acc EXCEPT !.log.kwTests = @ \cup {i}] IN
         IF ~Contains(text, list[i].kw)
         THEN ScanFrom(list, text, i + 1, tested)
         ELSE LET m == Search(list[i].pat, text)
                  evald == [tested EXCEPT !.log.reEvals = @ \cup {i}]
              IN  IF m # NoMatch
                  THEN [keyword |-> list[i].kw, searched |-> m,
                        log |-> [evald.log EXCEPT !.idx = i]]
                  ELSE ScanFrom(list, text, i + 1, evald)

\* keyword = "", searched = None before the loop
ScanStart == [keyword |-> <<>>, searched |-> NoMatch, log |-> NoLog]

\* Lines 155-165: the scan of one call. It reads key_pattern_list and
\* assigns the call's locals.
MatchScan_consuming(c, text) ==
    LET r == ScanFrom(key_pattern_list, text, 1, ScanStart) IN
    /\ keyword' = [keyword EXCEPT ![c] = r.keyword]
    /\ searched' = [searched EXCEPT ![c] = r.searched]
    /\ scanlog' = [scanlog EXCEPT ![c] = r.log]
    /\ pc' = [pc EXCEPT ![c] = IF r.searched = NoMatch THEN "returned" ELSE "matched"]
    /\ key_pattern_list' =
           IF r.log.idx = 0 THEN key_pattern_list
           ELSE SubSeq(key_pattern_list, r.log.idx + 1, Len(key_pattern_list))
    /\ UNCHANGED parser_map

MatchScan(c, text) ==
    LET r == ScanFrom(key_pattern_list, text, 1, ScanStart) IN
    /\ keyword' = [keyword EXCEPT ![c] = r.keyword]
    /\ searched' = [searched EXCEPT ![c] = r.searched]
    /\ scanlog' = [scanlog EXCEPT ![c] = r.log]
    /\ pc' = [pc EXCEPT ![c] = IF r.searched = NoMatch THEN "returned" ELSE "matched"]
    /\ UNCHANGED <<key_pattern_list, parser_map>>

\* The guards before the scan (lines 127-153): a disabled session, an empty
\* chain, an empty text, a message that mentions another bot.
ReturnsEarly(e) ==
    \/ e.umo \in disabled_sessions
    \/ e.seg1 = "none"
    \/ EventText(e) = <<>>
    \/ e.seg1 = "At_other"

\* on_message up to line 166: the call takes an event and either returns or
\* leaves the scan with a match.
OnMessage(c) ==
    /\ initialized
    /\ pc[c] = "idle"
    /\ \E e \in Events :
        /\ event' = [event EXCEPT ![c] = e]
        /\ IF ReturnsEarly(e)
           THEN /\ pc' = [pc EXCEPT ![c] = "returned"]
                /\ UNCHANGED <<keyword, searched, scanlog, key_pattern_list, parser_map>>
           ELSE MatchScan(c, EventText(e))
    /\ UNCHANGED <<enable_platforms, disabled_sessions, all_subclass, handle_order,
                   initialized>>
    /\ UNCHANGED <<resVars, fpVars, dyVars, igVars, plVars>>

\* The rest of the call (lines 168-203: arbitration, debounce, parse, send)
\* reads the registry and the locals and ends the call.
EndCall(c) ==
    /\ pc[c] \in {"returned", "matched"}
    /\ pc' = [pc EXCEPT ![c] = "idle"]
    /\ event' = [event EXCEPT ![c] = NoEvent]
    /\ keyword' = [keyword EXCEPT ![c] = <<>>]
    /\ searched' = [searched EXCEPT ![c] = NoMatch]
    /\ scanlog' = [scanlog EXCEPT ![c] = NoLog]
    /\ UNCHANGED <<enable_platforms, disabled_sessions, all_subclass, handle_order,
                   initialized, parser_map, key_pattern_list>>
    /\ UNCHANGED <<resVars, fpVars, dyVars, igVars, plVars>>

\* The plugin as constructed (__init__): empty parser_map and
\* key_pattern_list; the configuration and the class list are inputs.
PluginCreated ==
    /\ enable_platforms \in SUBSET {DisplayName(c) : c \in Classes}
    /\ disabled_sessions = {"s2"}
    /\ all_subclass = <<"DouyinParser", "InstagramParser">>
    /\ handle_order \in HandleOrders
    /\ initialized = FALSE
    /\ parser_map = EmptyMap
    /\ key_pattern_list = <<>>
    /\ pc = [c \in Callers |-> "idle"]
    /\ event = [c \in Callers |-> NoEvent]
    /\ keyword = [c \in Callers |-> <<>>]
    /\ searched = [c \in Callers |-> NoMatch]
    /\ scanlog = [c \in Callers |-> NoLog]

NextRegistry ==
    \/ Initialize
    \/ \E c \in Callers : OnMessage(c)
    \/ \E c \in Callers : EndCall(c)

\* ------------------------------------------------------------------------
\* MediaContent.get_path, VideoContent.get_cover_path, Author.get_avatar_path
\* ------------------------------------------------------------------------

\* The three fields that hold a Path or a Task[Path]; cover and avatar may
\* also be None.
Fields == {"path_task", "cover", "avatar"}

\* Paths a download may produce, and the path of a reference that was
\* created resolved.
Paths == {"a.mp4", "b.mp4"}

IsNone   == [kind |-> "None", v |-> None]
APath(p) == [kind |-> "Path", v |-> p]
ATask    == [kind |-> "Task", v |-> "task"]

\* The Task as asyncio keeps it: scheduled by create_task, running once the
\* loop has started its coroutine, then done with a result or failed with
\* an exception. A reference created resolved has no Task ("none").
TaskIn(state, result) == [state |-> state, result |-> result]

\* isinstance(self.path_task, Path)
IsPath(x) == x.kind = "Path"

\* `self.path_task = await self.path_task; return self.path_task` once the
\* Task is done: the result is stored in the field and returned.
Resolve(w) ==
    /\ ref' = APath(task.result)
    /\ wret' = [wret EXCEPT ![w] = task.result]
    /\ delivered' = delivered \cup {task.result}
    /\ wpc' = [wpc EXCEPT ![w] = "returned"]

\* `await self.path_task` on a Task that failed: the exception is raised in
\* the caller and the assignment does not happen.
Raise_memoizes(w) ==
    /\ ref' = APath(None)
    /\ wret' = [wret EXCEPT ![w] = None]
    /\ delivered' = delivered \cup {None}
    /\ wpc' = [wpc EXCEPT ![w] = "returned"]

Raise(w) ==
    /\ wpc' = [wpc EXCEPT ![w] = "raised"]
    /\ UNCHANGED <<ref, wret, delivered>>

\* await on a Task that is not done: the caller suspends until it is.
Suspend_restarts(w) ==
    /\ wpc' = [wpc EXCEPT ![w] = "awaiting"]
    /\ wsusp' = [wsusp EXCEPT ![w] = TRUE]
    /\ task' = TaskIn("scheduled", None)
    /\ UNCHANGED <<ref, wret, delivered, fetches>>

Suspend(w) ==
    /\ wpc' = [wpc EXCEPT ![w] = "awaiting"]
    /\ wsusp' = [wsusp EXCEPT ![w] = TRUE]
    /\ UNCHANGED <<ref, wret, delivered, task, fetches>>

\* A call of get_path (get_cover_path, get_avatar_path) up to its await.
GetPath_alwaysAwaits(w) ==
    /\ wpc[w] = "idle"
    /\ IF task.state \in {"scheduled", "running", "none"} THEN Suspend(w)
       ELSE IF task.state = "done"
       THEN Resolve(w) /\ UNCHANGED <<task, fetches, wsusp>>
       ELSE Raise(w) /\ UNCHANGED <<task, fetches, wsusp>>
    /\ UNCHANGED field
    /\ UNCHANGED <<regVars, fpVars, dyVars, igVars, plVars>>

GetPath(w) ==
    /\ wpc[w] = "idle"
    /\ IF ref = IsNone
       THEN \* if self.cover is None: return None
            /\ wpc' = [wpc EXCEPT ![w] = "returned"]
            /\ wret' = [wret EXCEPT ![w] = None]
            /\ delivered' = delivered \cup {None}
            /\ UNCHANGED <<ref, task, fetches, wsusp>>
       ELSE IF IsPath(ref)
       THEN \* if isinstance(self.path_task, Path): return self.path_task
            /\ wpc' = [wpc EXCEPT ![w] = "returned"]
            /\ wret' = [wret EXCEPT ![w] = ref.v]
            /\ delivered' = delivered \cup {ref.v}
            /\ UNCHANGED <<ref, task, fetches, wsusp>>
       ELSE \* self.path_task = await self.path_task
            IF task.state \in {"scheduled", "running"} THEN Suspend(w)
            ELSE IF task.state = "done"
            THEN Resolve(w) /\ UNCHANGED <<task, fetches, wsusp>>
            ELSE Raise(w) /\ UNCHANGED <<task, fetches, wsusp>>
    /\ UNCHANGED field
    /\ UNCHANGED <<regVars, fpVars, dyVars, igVars, plVars>>

\* A suspended call is woken once the Task is done or has failed.
Resume(w) ==
    /\ wpc[w] = "awaiting"
    /\ task.state \in {"done", "failed"}
    /\ IF task.state = "done" THEN Resolve(w) ELSE Raise(w)
    /\ UNCHANGED <<field, task, fetches, wsusp>>
    /\ UNCHANGED <<regVars, fpVars, dyVars, igVars, plVars>>

\* The call is over; the coroutine may call again.
EndGet(w) ==
    /\ wpc[w] \in {"returned", "raised"}
    /\ wpc' = [wpc EXCEPT ![w] = "idle"]
    /\ wret' = [wret EXCEPT ![w] = None]
    /\ wsusp' = [wsusp EXCEPT ![w] = FALSE]
    /\ UNCHANGED <<field, ref, task, fetches, delivered>>
    /\ UNCHANGED <<regVars, fpVars, dyVars, igVars, plVars>>

\* The event loop starts the coroutine of the scheduled Task: the fetch.
TaskStart ==
    /\ task.state = "scheduled"
    /\ task' = TaskIn("running", None)
    /\ fetches' = fetches + 1
    /\ UNCHANGED <<field, ref, wpc, wret, wsusp, delivered>>
    /\ UNCHANGED <<regVars, fpVars, dyVars, igVars, plVars>>

\* The fetch ends: with a path, or with an exception.
TaskDone(p) ==
    /\ task.state = "running"
    /\ task' = TaskIn("done", p)
    /\ UNCHANGED <<field, ref, fetches, wpc, wret, wsusp, delivered>>
    /\ UNCHANGED <<regVars, fpVars, dyVars, igVars, plVars>>

TaskFail ==
    /\ task.state = "running"
    /\ task' = TaskIn("failed", None)
    /\ UNCHANGED <<field, ref, fetches, wpc, wret, wsusp, delivered>>
    /\ UNCHANGED <<regVars, fpVars, dyVars, igVars, plVars>>

\* A content object as a parser creates it: the field holds a Path, or a
\* Task the downloader has scheduled; cover and avatar may be None.
ReferenceCreated ==
    /\ field \in Fields
    /\ \/ ref \in {APath(p) : p \in Paths} /\ task = TaskIn("none", None)
       \/ ref = ATask /\ task = TaskIn("scheduled", None)
       \/ field # "path_task" /\ ref = IsNone /\ task = TaskIn("none", None)
    /\ fetches = 0
    /\ wpc = [w \in Waiters |-> "idle"]
    /\ wret = [w \in Waiters |-> None]
    /\ wsusp = [w \in Waiters |-> FALSE]
    /\ delivered = {}

NextResolve ==
    \/ \E w \in Waiters : GetPath(w)
    \/ \E w \in Waiters : Resume(w)
    \/ \E w \in Waiters : EndGet(w)
    \/ TaskStart
    \/ \E p \in Paths : TaskDone(p)
    \/ TaskFail

\* ------------------------------------------------------------------------
\* The content model and ParseResult.get_resource_id
\* ------------------------------------------------------------------------

\* An optional value: Nothing is Python's None, Some(x) the value x.
Nothing == <<>>
Some(x) == <<x>>

\* str() and encode("utf-8"). A character is a one-character string, or the
\* name of its code point (U+0022 the double quote, U+005C the backslash,
\* U+0060 the backquote, and code points outside ASCII).
Printable ==
    <<" ","!","U+0022","#","$","%","&","'","(",")","*","+",",","-",".","/",
      "0","1","2","3","4","5","6","7","8","9",":",";","<","=",">","?","@",
      "A","B","C","D","E","F","G","H","I","J","K","L","M","N","O","P","Q",
      "R","S","T","U","V","W","X","Y","Z","[","U+005C","]","^","_","U+0060",
      "a","b","c","d","e","f","g","h","i","j","k","l","m","n","o","p","q",
      "r","s","t","u","v","w","x","y","z","{","|","}","~">>

Ord == [c \in {Printable[i] : i \in 1..Len(Printable)} |->
            31 + (CHOOSE i \in 1..Len(Printable) : Printable[i] = c)]

\* U+6296, the first character of the display name of the Douyin platform
CJK_dou == "U+6296"

Utf8(c) == IF c = CJK_dou THEN <<230, 138, 150>> ELSE <<Ord[c]>>

RECURSIVE Encode(_)
Encode(s) == IF s = <<>> THEN <<>> ELSE Utf8(Head(s)) \o Encode(Tail(s))

\* str(n) of a non-negative int
RECURSIVE StrInt(_)
StrInt(n) ==
    IF n < 10 THEN <<Printable[17 + n]>>
    ELSE StrInt(n \div 10) \o <<Printable[17 + (n % 10)]>>

\* A duration is an int, or a float with one decimal given in tenths.
IntNum(n)        == [isint |-> TRUE,  n |-> n]
FloatNum(tenths) == [isint |-> FALSE, n |-> tenths]

\* str(duration): "0" for the int 0, "12.5" for the float 12.5
StrNum(d) ==
    IF d.isint THEN StrInt(d.n)
    ELSE StrInt(d.n \div 10) \o <<".">> \o StrInt(d.n % 10)

\* A media reference inside a content object: a Path or a Task (or None).
RefPath == [kind |-> "Path"]
RefTask == [kind |-> "Task"]
RefNone == [kind |-> "None"]

\* The content classes. A field a class does not have is kept at its
\* default and never read.
Content(cls, path_task, cover, duration, name, text, alt, gif_path) ==
    [cls |-> cls, path_task |-> path_task, cover |-> cover, duration |-> duration,
     name |-> name, text |-> text, alt |-> alt, gif_path |-> gif_path]

S_ImageContent    == <<"I","m","a","g","e","C","o","n","t","e","n","t">>
S_VideoContent    == <<"V","i","d","e","o","C","o","n","t","e","n","t">>
S_AudioContent    == <<"A","u","d","i","o","C","o","n","t","e","n","t">>
S_FileContent     == <<"F","i","l","e","C","o","n","t","e","n","t">>
S_DynamicContent  == <<"D","y","n","a","m","i","c","C","o","n","t","e","n","t">>
S_GraphicsContent == <<"G","r","a","p","h","i","c","s","C","o","n","t","e","n","t">>

ImageContent(path_task) ==
    Content(S_ImageContent, path_task, RefNone, FloatNum(0), Nothing, Nothing, Nothing, RefNone)
VideoContent(path_task, cover, duration) ==
    Content(S_VideoContent, path_task, cover, duration, Nothing, Nothing, Nothing, RefNone)
AudioContent(path_task, duration) ==
    Content(S_AudioContent, path_task, RefNone, duration, Nothing, Nothing, Nothing, RefNone)
FileContent(path_task, name) ==
    Content(S_FileContent, path_task, RefNone, FloatNum(0), name, Nothing, Nothing, RefNone)
DynamicContent(path_task, gif_path) ==
    Content(S_DynamicContent, path_task, RefNone, FloatNum(0), Nothing, Nothing, Nothing, gif_path)
GraphicsContent(path_task, text, alt) ==
    Content(S_GraphicsContent, path_task, RefNone, FloatNum(0), Nothing, text, alt, RefNone)

Author(name, avatar, description) ==
    [name |-> name, avatar |-> avatar, description |-> description]

\* h = hashlib.blake2b(digest_size=8): the hasher is the byte string fed to
\* it so far; hexdigest() is taken of the whole of it.
DigestSize == 8

NewHasher == <<>>

\* add(v): the bytes of str(v) unless v is None, then the delimiter "|".
\* v is an optional string here: the caller applies str().
Add(h, v) ==
    (IF v = Nothing THEN h ELSE h \o Encode(v[1])) \o <<Ord["|"]>>

\* The per-content part of the loop: the class name, then the scalars of
\* the subclass.
AddContent_readsPath(h, cont) ==
    LET h1 == Add(Add(h, Some(cont.cls)), Some(IF cont.path_task = RefTask THEN <<"T">> ELSE <<"P">>)) IN
    IF cont.cls = S_VideoContent THEN Add(h1, Some(StrNum(cont.duration)))
    ELSE IF cont.cls = S_AudioContent THEN Add(h1, Some(StrNum(cont.duration)))
    ELSE IF cont.cls = S_FileContent THEN Add(h1, cont.name)
    ELSE IF cont.cls = S_GraphicsContent THEN Add(Add(h1, cont.text), cont.alt)
    ELSE h1

AddContent(h, cont) ==
    LET h1 == Add(h, Some(cont.cls)) IN
    IF cont.cls = S_VideoContent THEN Add(h1, Some(StrNum(cont.duration)))
    ELSE IF cont.cls = S_AudioContent THEN Add(h1, Some(StrNum(cont.duration)))
    ELSE IF cont.cls = S_FileContent THEN Add(h1, cont.name)
    ELSE IF cont.cls = S_GraphicsContent THEN Add(Add(h1, cont.text), cont.alt)
    ELSE h1

RECURSIVE AddContents(_, _)
AddContents(h, contents) ==
    IF contents = <<>> THEN h
    ELSE AddContents(AddContent(h, Head(contents)), Tail(contents))

\* The digest. blake2b itself is not reproduced: a deterministic function
\* of the whole byte string, DigestSize bytes wide, stands for it, so that
\* equal byte strings give equal digests and nothing else is assumed. It
\* is made of two polynomials in the bytes fed, evaluated by halving the
\* string.

\* <<the polynomial of a string in b, b to the power of its length>> of the
\* concatenation of two strings, from theirs
Join(l, r) == <<(l[1] * r[2] + r[1]) % 32768, (l[2] * r[2]) % 32768>>

RECURSIVE Poly(_, _, _, _)
Poly(bytes, lo, hi, b) ==
    IF lo > hi THEN <<0, 1>>
    ELSE IF lo = hi THEN <<bytes[lo], b>>
    ELSE LET mid == (lo + hi) \div 2
         IN  Join(Poly(bytes, lo, mid, b), Poly(bytes, mid + 1, hi, b))

Lane(p, q, n, i) ==
    IF i = 1 THEN p % 256
    ELSE IF i = 2 THEN p \div 128
    ELSE IF i = 3 THEN q % 256
    ELSE IF i = 4 THEN q \div 128
    ELSE (p * i + q + n) % 256

Digest(bytes) ==
    LET n == Len(bytes)
        p == Poly(bytes, 1, n, 31)[1]
        q == Poly(bytes, 1, n, 257)[1]
    IN  [i \in 1..DigestSize |-> Lane(p, q, n, i)]

HexChars == <<"0","1","2","3","4","5","6","7","8","9","a","b","c","d","e","f">>

RECURSIVE Hex(_, _)
Hex(state, i) ==
    IF i > Len(state) THEN <<>>
    ELSE <<HexChars[(state[i] \div 16) + 1], HexChars[(state[i] % 16) + 1]>>
         \o Hex(state, i + 1)

HexDigest(h) == Hex(Digest(h), 1)

\* The str() of an optional int
OptStrInt(v) == IF v = Nothing THEN Nothing ELSE Some(StrInt(v[1]))

\* get_resource_id(): the id it returns, the object after the call (with
\* _resource_id memoized, in it and in its repost), the number of hashers
\* built and the bytes fed for this object's id (Nothing: none were fed).
RECURSIVE ResourceId_nomemo(_)
ResourceId_nomemo(res) ==
    LET h1 == Add(NewHasher, Some(res.platform.name))
        h2 == Add(h1, res.url)
        h3 == Add(h2, OptStrInt(res.timestamp))
        h4 == IF res.author # Nothing THEN Add(h3, Some(res.author[1].name)) ELSE h3
        h5 == Add(h4, Some(StrInt(Len(res.contents))))
        h6 == AddContents(h5, res.contents)
        rp == IF res.repost # Nothing
              THEN ResourceId_nomemo(res.repost[1])
              ELSE [id |-> <<>>, res |-> res, hashed |-> 0, fed |-> Nothing]
        h7 == IF res.repost # Nothing THEN Add(h6, Some(rp.id)) ELSE h6
        id == HexDigest(h7)
    IN  [id     |-> id,
         res    |-> [res EXCEPT !._resource_id = Some(id),
                                !.repost = IF @ # Nothing THEN Some(rp.res) ELSE @],
         hashed |-> 1 + rp.hashed,
         fed    |-> Some(h7)]

RECURSIVE ResourceId(_)
ResourceId(res) ==
    IF res._resource_id # Nothing
    THEN [id |-> res._resource_id[1], res |-> res, hashed |-> 0, fed |-> Nothing]
    ELSE
    LET h1 == Add(NewHasher, Some(res.platform.name))
        h2 == Add(h1, res.url)
        h3 == Add(h2, OptStrInt(res.timestamp))
        h4 == IF res.author # Nothing THEN Add(h3, Some(res.author[1].name)) ELSE h3
        h5 == Add(h4, Some(StrInt(Len(res.contents))))
        h6 == AddContents(h5, res.contents)
        rp == IF res.repost # Nothing
              THEN ResourceId(res.repost[1])
              ELSE [id |-> <<>>, res |-> res, hashed |-> 0, fed |-> Nothing]
        h7 == IF res.repost # Nothing THEN Add(h6, Some(rp.id)) ELSE h6
        id == HexDigest(h7)
    IN  [id     |-> id,
         res    |-> [res EXCEPT !._resource_id = Some(id),
                                !.repost = IF @ # Nothing THEN Some(rp.res) ELSE @],
         hashed |-> 1 + rp.hashed,
         fed    |-> Some(h7)]

\* ParseResult objects. title, text, extra and render_image are opaque.
ParseResult(platform, author, title, text, timestamp, url, contents, extra, repost, render_image) ==
    [platform |-> platform, author |-> author, title |-> title, text |-> text,
     timestamp |-> timestamp, url |-> url, contents |-> contents, extra |-> extra,
     repost |-> repost, render_image |-> render_image, _resource_id |-> Nothing]

S_douyin    == <<"d","o","u","y","i","n">>
S_instagram == <<"i","n","s","t","a","g","r","a","m">>

PlatformOf(cls) ==
    [name |-> IF cls = "DouyinParser" THEN S_douyin ELSE S_instagram,
     display_name |-> DisplayName(cls)]

U1 == <<"u",".","c","n","/","1">>

\* The content objects a post is made of, one of each class, in the order
\* of a feed. Some are created with their download pending, some with a
\* cached path.
Feed ==
    << ImageContent(RefTask),
       VideoContent(RefTask, RefTask, FloatNum(125)),
       AudioContent(RefPath, FloatNum(30)),
       FileContent(RefPath, Some(<<"f">>)),
       DynamicContent(RefTask, RefNone),
       GraphicsContent(RefPath, Some(<<"t">>), Nothing) >>

\* The contents lists: up to MaxContents consecutive contents of the feed.
ContentLists ==
    {<<>>} \cup {SubSeq(Feed, w[1], w[1] + w[2] - 1) :
                    w \in {v \in (1..Len(Feed)) \X (1..MaxContents) :
                               v[1] + v[2] - 1 <= Len(Feed)}}

\* A reposted post: a video whose media is pending.
RepostR ==
    ParseResult(PlatformOf("DouyinParser"), Some(Author(<<"r">>, RefTask, Nothing)),
                Some("quoted"), Nothing, Some(9), Nothing,
                <<VideoContent(RefTask, RefTask, FloatNum(125))>>, "extra0",
                Nothing, RefNone)

BaseResult(contents, repost) ==
    ParseResult(PlatformOf("DouyinParser"), Some(Author(<<"n">>, RefTask, Nothing)),
                Some("title"), Nothing, Some(17), Some(U1), contents, "extra0",
                repost, RefNone)

\* The results the first object is drawn from.
ResultShapes ==
    {BaseResult(cs, Nothing) : cs \in ContentLists}
    \cup {BaseResult(cs, Some(RepostR)) : cs \in {<<>>, <<ImageContent(RefTask)>>}}

ResolvedRef(x) == IF x = RefTask THEN RefPath ELSE x

ResolvedContent(c) ==
    [c EXCEPT !.path_task = ResolvedRef(@), !.cover = ResolvedRef(@)]

RECURSIVE AllResolved(_)
AllResolved(res) ==
    [res EXCEPT
        !.author = IF @ = Nothing THEN @
                   ELSE Some([@[1] EXCEPT !.avatar = ResolvedRef(@)]),
        !.contents = [i \in 1..Len(@) |-> ResolvedContent(@[i])],
        !.repost = IF @ = Nothing THEN @ ELSE Some(AllResolved(@[1]))]

\* Every media reference of the contents is a download that has not finished.
PendingContent(c) ==
    [c EXCEPT !.path_task = RefTask,
              !.cover = IF c.cls = S_VideoContent THEN RefTask ELSE @]

AllPending(res) ==
    [res EXCEPT !.contents = [i \in 1..Len(@) |-> PendingContent(@[i])]]

\* The first content with the scalars of its class changed.
OtherScalars(c) ==
    [c EXCEPT !.duration = IF c.cls \in {S_VideoContent, S_AudioContent}
                           THEN IntNum(0) ELSE @,
              !.name = IF c.cls = S_FileContent THEN Nothing ELSE @,
              !.text = IF c.cls = S_GraphicsContent THEN Nothing ELSE @,
              !.alt = IF c.cls = S_GraphicsContent THEN Some(<<"t">>) ELSE @]

\* An image becomes an animation, anything else an image.
OtherClass(c) ==
    IF c.cls = S_ImageContent
    THEN DynamicContent(c.path_task, RefNone)
    ELSE ImageContent(c.path_task)

\* The ways the second object differs from the first.
Variations ==
    {"same", "resolved", "pending", "unhashed", "platform", "url_none", "url_empty",
     "timestamp", "timestamp_none", "no_author", "author_name", "author_empty",
     "scalars", "class", "shorter", "repost", "repost_resolved"}

Vary(res, how) ==
    CASE how = "same" -> res
      [] how = "resolved" -> AllResolved(res)
      [] how = "pending" -> AllPending(res)
      [] how = "unhashed" ->
            [res EXCEPT !.title = Nothing, !.text = Some("text"), !.extra = "extra1",
                        !.render_image = RefPath,
                        !.author = Some([@[1] EXCEPT !.description = Some("bio")]),
                        !.contents = [i \in 1..Len(@) |->
                            IF @[i].cls = S_DynamicContent
                            THEN [@[i] EXCEPT !.gif_path = RefPath] ELSE @[i]]]
      [] how = "platform" -> [res EXCEPT !.platform = PlatformOf("InstagramParser")]
      [] how = "url_none" -> [res EXCEPT !.url = Nothing]
      [] how = "url_empty" -> [res EXCEPT !.url = Some(<<>>)]
      [] how = "timestamp" -> [res EXCEPT !.timestamp = Some(170)]
      [] how = "timestamp_none" -> [res EXCEPT !.timestamp = Nothing]
      [] how = "no_author" -> [res EXCEPT !.author = Nothing]
      [] how = "author_name" ->
            [res EXCEPT !.author = Some([@[1] EXCEPT !.name = <<CJK_dou, "n">>])]
      [] how = "author_empty" ->
            [res EXCEPT !.author = Some([@[1] EXCEPT !.name = <<>>])]
      [] how = "scalars" ->
            [res EXCEPT !.contents = [i \in 1..Len(@) |->
                            IF i = 1 THEN OtherScalars(@[i]) ELSE @[i]]]
      [] how = "class" ->
            [res EXCEPT !.contents = [i \in 1..Len(@) |->
                            IF i = 1 THEN OtherClass(@[i]) ELSE @[i]]]
      [] how = "shorter" ->
            [res EXCEPT !.contents = SubSeq(@, 1, Len(@) - 1)]
      [] how = "repost" ->
            [res EXCEPT !.repost = IF @ = Nothing THEN Some(RepostR) ELSE Nothing]
      [] how = "repost_resolved" ->
            [res EXCEPT !.repost = IF @ = Nothing THEN @ ELSE Some(AllResolved(@[1]))]

Objects == {"A", "B"}

\* The object on_message has parsed and sends: its media are resolved by
\* the senders. The other object is a result it is compared with.
Sent == "A"

\* The media references of an object that are still Tasks.
PendingRefs(res) ==
    {x \in {<<"avatar", 0>>} : res.author # Nothing /\ res.author[1].avatar = RefTask}
    \cup {<<"path_task", i>> : i \in {j \in 1..Len(res.contents) : res.contents[j].path_task = RefTask}}
    \cup {<<"cover", i>> : i \in {j \in 1..Len(res.contents) : res.contents[j].cover = RefTask}}

\* A call of get_resource_id on object r. The call is synchronous: it runs
\* to its return in one step.
CallGetResourceId_resolves(r) ==
    LET o == ResourceId(results[r]) IN
    /\ results' = [results EXCEPT ![r] =
                      [o.res EXCEPT !.contents =
                          [i \in 1..Len(@) |-> ResolvedContent(@[i])]]]
    /\ rets' = [rets EXCEPT ![r] = @ \cup {[id |-> o.id, moved |-> moved[r]]}]
    /\ hashcount' = [hashcount EXCEPT ![r] = @ + o.hashed]
    /\ stream' = [stream EXCEPT ![r] = IF o.fed # Nothing THEN o.fed ELSE @]
    /\ UNCHANGED moved
    /\ UNCHANGED <<regVars, resVars, dyVars, igVars, plVars>>

CallGetResourceId(r) ==
    LET o == ResourceId(results[r]) IN
    /\ results' = [results EXCEPT ![r] = o.res]
    /\ rets' = [rets EXCEPT ![r] = @ \cup {[id |-> o.id, moved |-> moved[r]]}]
    /\ hashcount' = [hashcount EXCEPT ![r] = @ + o.hashed]
    /\ stream' = [stream EXCEPT ![r] = IF o.fed # Nothing THEN o.fed ELSE @]
    /\ UNCHANGED moved
    /\ UNCHANGED <<regVars, resVars, dyVars, igVars, plVars>>

\* The downloader completes a download and a consumer's get_path (or
\* get_cover_path, get_avatar_path) stores the path in the field.
ResolveMedia(x) ==
    /\ x \in PendingRefs(results[Sent])
    /\ results' = [results EXCEPT ![Sent] =
          IF x[1] = "avatar"
          THEN [@ EXCEPT !.author = Some([@[1] EXCEPT !.avatar = RefPath])]
          ELSE IF x[1] = "path_task"
          THEN [@ EXCEPT !.contents[x[2]].path_task = RefPath]
          ELSE [@ EXCEPT !.contents[x[2]].cover = RefPath]]
    /\ moved' = [moved EXCEPT ![Sent] = @ \/ results[Sent]._resource_id # Nothing]
    /\ UNCHANGED <<rets, hashcount, stream>>
    /\ UNCHANGED <<regVars, resVars, dyVars, igVars, plVars>>

RefNames == ({"path_task", "cover"} \X (1..MaxContents)) \cup {<<"avatar", 0>>}

\* Two results as parsers return them: the second is the first with one
\* variation.
ResultsParsed ==
    /\ \E a \in ResultShapes, how \in Variations :
           results = [r \in Objects |-> IF r = Sent THEN a ELSE Vary(a, how)]
    /\ rets = [r \in Objects |-> {}]
    /\ hashcount = [r \in Objects |-> 0]
    /\ stream = [r \in Objects |-> Nothing]
    /\ moved = [r \in Objects |-> FALSE]

NextFingerprint ==
    \/ \E r \in Objects : CallGetResourceId(r)
    \/ \E x \in RefNames : ResolveMedia(x)

\* No ParseResult is in use.
FingerprintAtRest ==
    /\ results = [r \in Objects |-> BaseResult(<<>>, Nothing)]
    /\ rets = [r \in Objects |-> {}]
    /\ hashcount = [r \in Objects |-> 0]
    /\ stream = [r \in Objects |-> Nothing]
    /\ moved = [r \in Objects |-> FALSE]

\* ------------------------------------------------------------------------
\* DouyinParser: the cookie string, the two header profiles and the cookie
\* file. A str is a sequence of characters; LF and CR stand for "\n", "\r".
\* ------------------------------------------------------------------------

LF == "LF"
CR == "CR"

\* The characters str.strip() removes.
Whitespace == {" ", LF, CR}

RECURSIVE LStrip(_)
LStrip(s) == IF s # <<>> /\ Head(s) \in Whitespace THEN LStrip(Tail(s)) ELSE s

RECURSIVE RStrip(_)
RStrip(s) ==
    IF s # <<>> /\ s[Len(s)] \in Whitespace THEN RStrip(SubSeq(s, 1, Len(s) - 1)) ELSE s

\* str.strip()
Strip(s) == RStrip(LStrip(s))

\* str.replace(ch, "")
Remove(s, ch) == SelectSeq(s, LAMBDA c : c # ch)

\* str.split(sep) for a one-character separator
RECURSIVE SplitFrom(_, _, _, _)
SplitFrom(s, sep, i, cur) ==
    IF i > Len(s) THEN <<cur>>
    ELSE IF s[i] = sep THEN <<cur>> \o SplitFrom(s, sep, i + 1, <<>>)
    ELSE SplitFrom(s, sep, i + 1, Append(cur, s[i]))

Split(s, sep) == SplitFrom(s, sep, 1, <<>>)

\* `sep in s`
HasChar(s, sep) == \E i \in 1..Len(s) : s[i] = sep

\* str.split(sep, 1) of a string that contains sep: what is before the first
\* sep and what is after it.
SplitOnce(s, sep) ==
    LET i == CHOOSE k \in 1..Len(s) : s[k] = sep /\ \A j \in 1..(k - 1) : s[j] # sep
    IN  <<SubSeq(s, 1, i - 1), SubSeq(s, i + 1, Len(s))>>

\* existing_cookies is a dict: name -> value, kept in insertion order.
\* d[name] = value keeps the position of a name the dict already has.
DictSet(d, name, value) ==
    IF \E i \in 1..Len(d) : d[i].name = name
    THEN [i \in 1..Len(d) |->
             IF d[i].name = name THEN [name |-> name, value |-> value] ELSE d[i]]
    ELSE Append(d, [name |-> name, value |-> value])

\* if cookie and "=" in cookie: name, value = cookie.split("=", 1);
\* existing_cookies[name.strip()] = value.strip()
PutCookie_keepfirst(d, cookie) ==
    IF cookie # <<>> /\ HasChar(cookie, "=")
    THEN LET nv == SplitOnce(cookie, "=")
         IN  IF \E i \in 1..Len(d) : d[i].name = Strip(nv[1])
             THEN d
             ELSE DictSet(d, Strip(nv[1]), Strip(nv[2]))
    ELSE d

PutCookie(d, cookie) ==
    IF cookie # <<>> /\ HasChar(cookie, "=")
    THEN LET nv == SplitOnce(cookie, "=")
         IN  DictSet(d, Strip(nv[1]), Strip(nv[2]))
    ELSE d

\* for cookie in self.douyin_ck.split(";"): cookie = cookie.strip(); ...
RECURSIVE ParseExisting(_, _, _)
ParseExisting(d, parts, i) ==
    IF i > Len(parts) THEN d
    ELSE ParseExisting(PutCookie(d, Strip(parts[i])), parts, i + 1)

\* for set_cookie in set_cookie_headers:
\*     cookie_part = set_cookie.split(";")[0].strip(); ...
RECURSIVE ParseNew(_, _, _)
ParseNew(d, set_cookie_headers, i) ==
    IF i > Len(set_cookie_headers) THEN d
    ELSE ParseNew(PutCookie(d, Strip(Split(set_cookie_headers[i], ";")[1])),
                  set_cookie_headers, i + 1)

\* "; ".join([f"{k}={v}" for k, v in existing_cookies.items()])
RECURSIVE JoinCookies(_)
JoinCookies(d) ==
    IF d = <<>> THEN <<>>
    ELSE LET kv == Head(d).name \o <<"=">> \o Head(d).value
         IN  IF Len(d) = 1 THEN kv ELSE kv \o <<";", " ">> \o JoinCookies(Tail(d))

\* existing_cookies after both loops, for the cookie string ck.
ExistingCookies(ck, set_cookie_headers) ==
    ParseNew(IF ck # <<>> THEN ParseExisting(<<>>, Split(ck, ";"), 1) ELSE <<>>,
             set_cookie_headers, 1)

\* new_cookies
NewCookies(ck, set_cookie_headers) == JoinCookies(ExistingCookies(ck, set_cookie_headers))

\* The parser instance: the four things the cookie methods read and write.
Self(ck, ios, android, file) == [douyin_ck |-> ck, ios |-> ios, android |-> android, file |-> file]

\* DouyinParser._clean_cookie
CleanCookie(cookie) == Strip(Remove(Remove(cookie, LF), CR))

\* DouyinParser._set_cookies
SetCookies(self, cookies) ==
    LET cleaned_cookies == CleanCookie(cookies)
    IN  IF cleaned_cookies # <<>>
        THEN [self EXCEPT !.ios = Some(cleaned_cookies), !.android = Some(cleaned_cookies)]
        ELSE self

\* DouyinParser._load_cookies, for a file that holds a record with "cookie"
LoadCookies(self) ==
    IF self.file = Nothing THEN self
    ELSE LET loaded == [self EXCEPT !.douyin_ck = self.file[1]]
         IN  IF loaded.douyin_ck # <<>> THEN SetCookies(loaded, loaded.douyin_ck) ELSE loaded

\* DouyinParser._save_cookies
SaveCookies(self, cookies) == [self EXCEPT !.file = Some(cookies)]

\* DouyinParser._update_cookies_from_response
UpdateCookiesFromResponse(self, set_cookie_headers) ==
    IF set_cookie_headers = <<>> THEN self
    ELSE LET new_cookies == NewCookies(self.douyin_ck, set_cookie_headers)
         IN  IF new_cookies # self.douyin_ck
             THEN SaveCookies(SetCookies([self EXCEPT !.douyin_ck = new_cookies], new_cookies),
                              new_cookies)
             ELSE self

\* DouyinParser.__init__ for config["douyin_ck"] = config_ck and the cookie
\* file as it is found (Nothing when it does not exist).
NewParser(config_ck, file) ==
    LET loaded == LoadCookies(Self(config_ck, Nothing, Nothing, file))
    IN  IF loaded.douyin_ck # <<>> THEN SetCookies(loaded, loaded.douyin_ck) ELSE loaded

\* ------------------------------------------------------------------------
\* DouyinParser: the parse calls
\* ------------------------------------------------------------------------

\* The parse calls that may be in flight on the one parser instance.
Calls == {"c1", "c2"}

\* How many times one call may enter parse_with_redirect (a short link whose
\* target is a short link again).
MaxHops == 2

S_https == <<"h","t","t","p","s",":","/","/">>

\* DouyinParser._build_iesdouyin_url
BuildIesdouyinUrl(ty, vid) == <<"h","t","t","p","s",":","/","/","w","w","w",".","i","e","s","d","o","u","y","i","n",".","c","o","m","/","s","h","a","r","e","/">> \o ty \o <<"/">> \o vid

\* DouyinParser._build_m_douyin_url
BuildMDouyinUrl(ty, vid) == <<"h","t","t","p","s",":","/","/","m",".","d","o","u","y","i","n",".","c","o","m","/","s","h","a","r","e","/">> \o ty \o <<"/">> \o vid

\* The url of parse_slides.
SlidesInfoUrl == <<"h","t","t","p","s",":","/","/","w","w","w",".","i","e","s","d","o","u","y","i","n",".","c","o","m","/","w","e","b","/","a","p","i","/","v","2","/","a","w","e","m","e","/","s","l","i","d","e","s","i","n","f","o","/">>

\* The mirror endpoints _parse_douyin loops over, in its order.
Mirrors(ty, vid) == <<BuildMDouyinUrl(ty, vid), BuildIesdouyinUrl(ty, vid)>>

\* searched.group("ty") and searched.group("vid"): every pattern bound to
\* _parse_douyin ends with /(?P<ty>...)/(?P<vid>\d+), so they are the last
\* two segments of group(0).
GroupTy(m) == LET parts == Split(m.group0, "/") IN parts[Len(parts) - 1]

GroupVid(m) == LET parts == Split(m.group0, "/") IN parts[Len(parts)]

\* BaseParser.search_url: the first binding of the class whose keyword is in
\* the url and whose pattern matches it; searched is NoMatch when there is
\* none (search_url then raises ParseException).
RECURSIVE SearchUrlFrom(_, _, _)
SearchUrlFrom(list, url, i) ==
    IF i > Len(list) THEN [keyword |-> <<>>, searched |-> NoMatch]
    ELSE LET m == IF Contains(url, list[i].kw) THEN Search(list[i].pat, url) ELSE NoMatch
         IN  IF m # NoMatch THEN [keyword |-> list[i].kw, searched |-> m]
             ELSE SearchUrlFrom(list, url, i + 1)

SearchUrl(url) == SearchUrlFrom(KeyPatterns("DouyinParser", handle_order), url, 1)

\* The handler each keyword is bound to by @handle.
HandlerOf(kw) ==
    IF kw \in {KW_v_douyin, KW_jx_douyin} THEN "_parse_short_link" ELSE "_parse_douyin"

\* An HTTP response: status, the Set-Cookie headers in order, the Location
\* header if any, and the body.
Response(status, set_cookie, location, body) ==
    [status |-> status, set_cookie |-> set_cookie, location |-> location, body |-> body]

\* A body: a page without window._ROUTER_DATA ("nodata"), one that does not
\* decode ("malformed"), the video_data of a page (image urls, video url,
\* cover url, duration), or the items of a slideshow (each an image or a
\* short animation, with its url).
Body(kind, image_urls, video_url, cover_url, duration, items) ==
    [kind |-> kind, image_urls |-> image_urls, video_url |-> video_url,
     cover_url |-> cover_url, duration |-> duration, items |-> items]

NoBody == Body("nodata", <<>>, Nothing, "", IntNum(0), <<>>)

NoResponse == Response(0, <<>>, Nothing, NoBody)

\* The locals of the method a call is in.
Frame(url, ty, vid, mirror, hops, resp) ==
    [url |-> url, ty |-> ty, vid |-> vid, mirror |-> mirror, hops |-> hops, resp |-> resp]

NoFrame == Frame(<<>>, <<>>, <<>>, 0, 0, NoResponse)

NoOutcome == [kind |-> "none", exc |-> "none", result |-> Nothing, source |-> <<>>]

\* The call raised exc.
Raised(exc) == [kind |-> "raised", exc |-> exc, result |-> Nothing, source |-> <<>>]

\* The call returned result, built from the response of url.
Returned(result, url) == [kind |-> "returned", exc |-> "none", result |-> Some(result), source |-> url]

\* One request of a call: the method that made it, its url, the status and
\* the Location that came back (status 0 when the request failed on the
\* network) and what became of the Set-Cookie headers of the response:
\* "none" when it had none, "pending", "merged", "dropped".
Request(by, url, status, location, kept) ==
    [by |-> by, url |-> url, status |-> status, location |-> location, kept |-> kept]

Last(s) == s[Len(s)]

\* A download the parser starts for a url.
DownloadTask(url) == [kind |-> "Task", url |-> url]

\* BaseParser.create_image_contents
CreateImageContents(image_urls) ==
    [i \in 1..Len(image_urls) |-> ImageContent(DownloadTask(image_urls[i]))]

\* BaseParser.create_video_content
CreateVideoContent(video_url, cover_url, duration) ==
    VideoContent(DownloadTask(video_url), DownloadTask(cover_url), duration)

\* BaseParser.create_dynamic_contents
CreateDynamicContents(dynamic_urls) ==
    [i \in 1..Len(dynamic_urls) |-> DynamicContent(DownloadTask(dynamic_urls[i]), RefNone)]

\* BaseParser.result
Result(title, author, contents, timestamp) ==
    ParseResult(PlatformOf("DouyinParser"), author, title, Nothing, timestamp, Nothing,
                contents, "extra0", Nothing, RefNone)

\* BaseParser.create_author
CreateAuthor(name, avatar_url) == Some(Author(name, DownloadTask(avatar_url), Nothing))

\* parse_video, lines 188-198: the contents built from video_data.
VideoContents_noduration(video_data) ==
    IF video_data.image_urls # <<>>
    THEN CreateImageContents(video_data.image_urls)
    ELSE IF video_data.video_url # Nothing
         THEN <<CreateVideoContent(video_data.video_url[1], video_data.cover_url, IntNum(0))>>
         ELSE <<>>

VideoContents_both(video_data) ==
    (IF video_data.image_urls # <<>>
     THEN CreateImageContents(video_data.image_urls) ELSE <<>>)
    \o (IF video_data.video_url # Nothing
        THEN <<CreateVideoContent(video_data.video_url[1], video_data.cover_url,
                                  video_data.duration)>> ELSE <<>>)

VideoContents(video_data) ==
    IF video_data.image_urls # <<>>
    THEN CreateImageContents(video_data.image_urls)
    ELSE IF video_data.video_url # Nothing
         THEN <<CreateVideoContent(video_data.video_url[1], video_data.cover_url,
                                  video_data.duration)>>
         ELSE <<>>

\* SlidesData.image_urls and SlidesData.dynamic_urls: the urls of the image
\* items and of the animated items of the payload, each in payload order.
ImageUrls(items) ==
    LET imgs == SelectSeq(items, LAMBDA it : it.variant = "image")
    IN  [i \in 1..Len(imgs) |-> imgs[i].url]

DynamicUrls(items) ==
    LET dyns == SelectSeq(items, LAMBDA it : it.variant = "animated")
    IN  [i \in 1..Len(dyns) |-> dyns[i].url]

\* parse_slides, lines 228-236: the contents built from slides_data.
SlidesContents(slides_data) ==
    CreateImageContents(ImageUrls(slides_data.items))
    \o CreateDynamicContents(DynamicUrls(slides_data.items))

\* redirect_url of parse_with_redirect, lines 153-155
RedirectUrl_anystatus(url, resp) ==
    IF resp.location # Nothing THEN resp.location[1] ELSE url

RedirectUrl(url, resp) ==
    IF resp.status \in {301, 302, 303, 307, 308}
    THEN IF resp.location # Nothing THEN resp.location[1] ELSE url
    ELSE url

\* ------------------------------------------------------------------------
\* DouyinParser: the steps of a parse call. A step runs from one await to
\* the next; the coroutines of the event loop interleave at the awaits only.
\* ------------------------------------------------------------------------

\* The instance as the cookie methods see it, and the assignment of what a
\* method leaves behind.
Instance == Self(douyin_ck, ios_headers, android_headers, cookies_file)

Becomes(self) ==
    /\ douyin_ck' = self.douyin_ck
    /\ ios_headers' = self.ios
    /\ android_headers' = self.android
    /\ cookies_file' = self.file

cookieVars == <<douyin_ck, ios_headers, android_headers, cookies_file, merged_headers>>

\* set_cookie_headers = resp.headers.getall("Set-Cookie", []);
\* if set_cookie_headers: self._update_cookies_from_response(set_cookie_headers)
MergeSetCookie(resp) ==
    IF resp.set_cookie # <<>>
    THEN /\ Becomes(UpdateCookiesFromResponse(Instance, resp.set_cookie))
         /\ merged_headers' = resp.set_cookie
    ELSE UNCHANGED cookieVars

\* Where a call stands after a step: its position, its locals, its outcome.
Stand(at, f, out) == [pc |-> at, frame |-> f, outcome |-> out]

Goes(c, st) ==
    /\ dpc' = [dpc EXCEPT ![c] = st.pc]
    /\ frame' = [frame EXCEPT ![c] = st.frame]
    /\ outcome' = [outcome EXCEPT ![c] = st.outcome]

\* The request of call c in flight is answered: it is added to the trace.
MethodAt(at) ==
    IF at = "short_get" THEN "parse_with_redirect"
    ELSE IF at \in {"video_get", "video_read"} THEN "parse_video"
    ELSE "parse_slides"

Logged(c, resp, kept) ==
    trace' = [trace EXCEPT ![c] =
                 Append(@, Request(MethodAt(dpc[c]), frame[c].url, resp.status,
                                   resp.location, kept))]

\* BaseParser.parse(keyword, searched): the handler bound to the keyword is
\* called. _parse_short_link builds the url and calls parse_with_redirect;
\* _parse_douyin calls parse_slides, or parse_video for the first mirror.
Enter(kw, m, hops) ==
    IF HandlerOf(kw) = "_parse_short_link"
    THEN Stand("short_get", Frame(S_https \o m.group0, <<>>, <<>>, 0, hops + 1, NoResponse),
               NoOutcome)
    ELSE IF GroupTy(m) = W_slides
         THEN Stand("slides_get",
                    Frame(SlidesInfoUrl, GroupTy(m), GroupVid(m), 0, hops, NoResponse),
                    NoOutcome)
         ELSE Stand("video_get",
                    Frame(Mirrors(GroupTy(m), GroupVid(m))[1], GroupTy(m), GroupVid(m), 1,
                          hops, NoResponse),
                    NoOutcome)

\* _parse_douyin, lines 118-127: parse_video raised ParseException for the
\* mirror of frame f. The loop goes on to the next mirror, or ends and the
\* handler raises.
NextMirror(f) ==
    IF f.mirror < Len(Mirrors(f.ty, f.vid))
    THEN Stand("video_get",
               Frame(Mirrors(f.ty, f.vid)[f.mirror + 1], f.ty, f.vid, f.mirror + 1, f.hops,
                     NoResponse),
               NoOutcome)
    ELSE Stand("done", f, Raised("ParseException"))

\* A message with a Douyin link reaches the parser: parse(keyword, searched)
\* for a binding b that matches the text.
StartParse(c, text, b) ==
    /\ dpc[c] = "idle"
    /\ Contains(text, b.kw)
    /\ Search(b.pat, text) # NoMatch
    /\ Goes(c, Enter(b.kw, Search(b.pat, text), 0))
    /\ trace' = [trace EXCEPT ![c] = <<>>]
    /\ UNCHANGED cookieVars
    /\ UNCHANGED <<regVars, resVars, fpVars, igVars, plVars>>

\* parse_with_redirect, lines 144-161, once the GET is answered.
ShortRespond(c, resp) ==
    /\ dpc[c] = "short_get"
    /\ LET url == frame[c].url
           redirect_url == RedirectUrl(url, resp)
           ks == SearchUrl(redirect_url)
       IN  /\ (redirect_url # url /\ ks.searched # NoMatch
                  /\ HandlerOf(ks.keyword) = "_parse_short_link")
              => frame[c].hops < MaxHops
           /\ MergeSetCookie(resp)
           /\ Logged(c, resp, IF resp.set_cookie # <<>> THEN "merged" ELSE "none")
           /\ Goes(c, IF redirect_url = url
                      THEN Stand("done", [frame[c] EXCEPT !.resp = resp],
                                 Raised("ParseException"))
                      ELSE IF ks.searched = NoMatch
                           THEN Stand("done", [frame[c] EXCEPT !.resp = resp],
                                      Raised("ParseException"))
                           ELSE Enter(ks.keyword, ks.searched, frame[c].hops))
    /\ UNCHANGED <<regVars, resVars, fpVars, igVars, plVars>>

\* parse_video, lines 164-169, once the GET is answered: the status check,
\* then the await of the body.
VideoRespond(c, resp) ==
    /\ dpc[c] = "video_get"
    /\ IF resp.status # 200
       THEN /\ Logged(c, resp, IF resp.set_cookie # <<>> THEN "dropped" ELSE "none")
            /\ Goes(c, NextMirror(frame[c]))
       ELSE /\ Logged(c, resp, IF resp.set_cookie # <<>> THEN "pending" ELSE "none")
            /\ Goes(c, Stand("video_read", [frame[c] EXCEPT !.resp = resp], NoOutcome))
    /\ UNCHANGED cookieVars
    /\ UNCHANGED <<regVars, resVars, fpVars, igVars, plVars>>

\* parse_video, lines 169-208, once the body is read.
VideoRead(c) ==
    /\ dpc[c] = "video_read"
    /\ LET f == frame[c]
           body == f.resp.body
       IN  /\ MergeSetCookie(f.resp)
           /\ trace' = [trace EXCEPT ![c] =
                           [@ EXCEPT ![Len(@)].kept =
                               IF f.resp.set_cookie # <<>> THEN "merged" ELSE "none"]]
           /\ Goes(c, CASE body.kind = "nodata" -> NextMirror(f)
                        [] body.kind = "video_data" ->
                              Stand("done", f,
                                    Returned(Result(Some("desc"), CreateAuthor(<<"n">>, "avatar.jpg"),
                                                    VideoContents(body), Some(17)),
                                             f.url))
                        [] OTHER -> Stand("done", f, Raised("DecodeError")))
    /\ UNCHANGED <<regVars, resVars, fpVars, igVars, plVars>>

\* parse_slides, lines 216-227, once the GET is answered: raise_for_status,
\* the merge, then the await of the body.
SlidesRespond(c, resp) ==
    /\ dpc[c] = "slides_get"
    /\ IF resp.status >= 400
       THEN /\ Logged(c, resp, IF resp.set_cookie # <<>> THEN "dropped" ELSE "none")
            /\ Goes(c, Stand("done", [frame[c] EXCEPT !.resp = resp],
                             Raised("ClientResponseError")))
            /\ UNCHANGED cookieVars
       ELSE /\ MergeSetCookie(resp)
            /\ Logged(c, resp, IF resp.set_cookie # <<>> THEN "merged" ELSE "none")
            /\ Goes(c, Stand("slides_read", [frame[c] EXCEPT !.resp = resp], NoOutcome))
    /\ UNCHANGED <<regVars, resVars, fpVars, igVars, plVars>>

\* parse_slides, lines 227-246, once the body is read.
SlidesRead(c) ==
    /\ dpc[c] = "slides_read"
    /\ LET f == frame[c]
           body == f.resp.body
       IN  Goes(c, IF body.kind = "slides_data"
                   THEN Stand("done", f,
                              Returned(Result(Some("desc"), CreateAuthor(<<"n">>, "avatar.jpg"),
                                              SlidesContents(body), Some(17)),
                                       f.url))
                   ELSE Stand("done", f, Raised("DecodeError")))
    /\ UNCHANGED trace
    /\ UNCHANGED cookieVars
    /\ UNCHANGED <<regVars, resVars, fpVars, igVars, plVars>>

\* The GET of a call fails on the network: client.get raises
\* aiohttp.ClientError, which no method of the parser catches.
GetFail(c) ==
    /\ dpc[c] \in {"short_get", "video_get", "slides_get"}
    /\ Logged(c, NoResponse, "none")
    /\ Goes(c, Stand("done", frame[c], Raised("ClientError")))
    /\ UNCHANGED cookieVars
    /\ UNCHANGED <<regVars, resVars, fpVars, igVars, plVars>>

\* The caller has the outcome; the call is over.
EndParse(c) ==
    /\ dpc[c] = "done"
    /\ Goes(c, Stand("idle", NoFrame, NoOutcome))
    /\ trace' = [trace EXCEPT ![c] = <<>>]
    /\ UNCHANGED cookieVars
    /\ UNCHANGED <<regVars, resVars, fpVars, igVars, plVars>>

\* ------------------------------------------------------------------------
\* DouyinParser: what the configuration, the disk and the servers supply
\* ------------------------------------------------------------------------

\* config["douyin_ck"]
Seeds == {<<>>, <<"a","=","1">>, <<"a","=","1",";"," ","b","=","2">>, <<"j","u","n","k">>}

\* The cookie file found at construction: none, or one written earlier.
Files == {Nothing, Some(<<"b","=","1">>)}

\* Set-Cookie header lists of a response.
H_none == <<>>
H_a    == <<<<"a","=","1">>>>
H_b    == <<<<"b","=","2",";"," ","P","a","t","h","=","/">>>>
H_aa   == <<<<"a","=","3",";"," ","P","a","t","h","=","/">>, <<"a","=","2">>>>
H_junk == <<<<"j","u","n","k">>>>

SetCookies_all == {H_none, H_a, H_b, H_aa, H_junk}

\* Link texts and Location targets.
U_short  == <<"h","t","t","p","s",":","/","/","v",".","d","o","u","y","i","n",".","c","o","m","/","a","b","c","1","2","3","X","Y">>
U_short2 == <<"h","t","t","p","s",":","/","/","j","x",".","d","o","u","y","i","n",".","c","o","m","/","b">>
U_other  == <<"h","t","t","p","s",":","/","/","e","x","a","m","p","l","e",".","c","o","m","/","x">>

Links == {T_e2e, T_video, T_slides, T_ies}

Locations == {Nothing, Some(U_short), Some(U_short2), Some(U_other), Some(T_video), Some(T_slides)}

\* Bodies of a mirror page.
P_images == Body("video_data", <<"i1.jpg", "i2.jpg">>, Nothing, "c1.jpg", IntNum(0), <<>>)
P_video  == Body("video_data", <<>>, Some("v1.mp4"), "c1.jpg", FloatNum(125), <<>>)
P_both   == Body("video_data", <<"i1.jpg">>, Some("v1.mp4"), "c2.jpg", IntNum(30), <<>>)
P_empty  == Body("video_data", <<>>, Nothing, "", IntNum(0), <<>>)
P_bad    == Body("malformed", <<>>, Nothing, "", IntNum(0), <<>>)

\* Bodies of the slides API.
Item(variant, url) == [variant |-> variant, url |-> url]

SL_img_dyn == Body("slides_data", <<>>, Nothing, "", IntNum(0), <<Item("image", "i1.jpg"), Item("animated", "d1.mp4")>>)
SL_dyn_img == Body("slides_data", <<>>, Nothing, "", IntNum(0), <<Item("animated", "d1.mp4"), Item("image", "i1.jpg")>>)
SL_empty   == Body("slides_data", <<>>, Nothing, "", IntNum(0), <<>>)

\* The responses of each endpoint when one call runs and its whole flow is
\* followed.
ShortResponses ==
    {Response(st, h, loc, NoBody) : st \in {200, 302}, h \in SetCookies_all, loc \in Locations}

VideoResponses ==
    {Response(200, h, Nothing, b) :
        h \in SetCookies_all, b \in {NoBody, P_bad, P_images, P_video, P_both, P_empty}}
    \cup {Response(404, h, Nothing, NoBody) : h \in SetCookies_all}

SlidesResponses ==
    {Response(200, h, Nothing, b) :
        h \in SetCookies_all, b \in {P_bad, SL_img_dyn, SL_dyn_img, SL_empty}}
    \cup {Response(404, h, Nothing, NoBody) : h \in SetCookies_all}

\* The responses of the mirror pages when two calls run at once.
RaceResponses ==
    {Response(200, h, Nothing, P_video) : h \in SetCookies_all}
    \cup {Response(404, h, Nothing, NoBody) : h \in SetCookies_all}

\* DouyinParser(config, downloader): the instance after __init__, no call made.
ParserCreated ==
    /\ \E config_ck \in Seeds, file \in Files :
          LET self == NewParser(config_ck, file)
          IN  /\ douyin_ck = self.douyin_ck
              /\ ios_headers = self.ios
              /\ android_headers = self.android
              /\ cookies_file = self.file
    /\ merged_headers = <<>>
    /\ dpc = [c \in Calls |-> "idle"]
    /\ frame = [c \in Calls |-> NoFrame]
    /\ trace = [c \in Calls |-> <<>>]
    /\ outcome = [c \in Calls |-> NoOutcome]

\* No parser instance is in use.
DouyinAtRest ==
    /\ douyin_ck = <<>>
    /\ ios_headers = Nothing
    /\ android_headers = Nothing
    /\ cookies_file = Nothing
    /\ merged_headers = <<>>
    /\ dpc = [c \in Calls |-> "idle"]
    /\ frame = [c \in Calls |-> NoFrame]
    /\ trace = [c \in Calls |-> <<>>]
    /\ outcome = [c \in Calls |-> NoOutcome]

\* One call at a time, every flow.
NextDouyin ==
    \/ \E text \in Links, i \in 1..Len(DeclaredBindings("DouyinParser")) : StartParse("c1", text, DeclaredBindings("DouyinParser")[i])
    \/ \E resp \in ShortResponses : ShortRespond("c1", resp)
    \/ \E resp \in VideoResponses : VideoRespond("c1", resp)
    \/ VideoRead("c1")
    \/ \E resp \in SlidesResponses : SlidesRespond("c1", resp)
    \/ SlidesRead("c1")
    \/ GetFail("c1")
    \/ EndParse("c1")

\* Two calls at once on canonical video links.
NextCookies ==
    \/ \E c \in Calls : StartParse(c, T_video, Binding(KW_douyin, PAT_douyin))
    \/ \E c \in Calls : \E resp \in RaceResponses : VideoRespond(c, resp)
    \/ \E c \in Calls : VideoRead(c)
    \/ \E c \in Calls : EndParse(c)


\* ------------------------------------------------------------------------
\* InstagramParser (core/parsers/instagram.py)
\* ------------------------------------------------------------------------

\* The largest number of entries a playlist payload carries.
MaxEntries == 2

\* retries = 2 of _extract_info and of _download_with_ytdlp
Retries == 2

\* What lines 215-220 read from one entry of the payload: the url of the
\* picked video format, the url of the picked audio format, whether the
\* video format carries audio, what _pick_image_url finds, the "thumbnail"
\* key and the duration. isdict is FALSE for an element of "entries" that is
\* not a dict.
Entry(isdict, video_url, audio_url, has_audio, picked_image, thumbnail, duration) ==
    [isdict |-> isdict, video_url |-> video_url, audio_url |-> audio_url,
     has_audio |-> has_audio, picked_image |-> picked_image, thumbnail |-> thumbnail,
     duration |-> duration]

E_video == Entry(TRUE, Some("v1.mp4"), Nothing, TRUE, Some("p1.jpg"), Some("t1.jpg"), FloatNum(70))
\* The url of a video format that has no audio.
V_split == <<"h","t","t","p","s",":","/","/","c","d","n",".","e","x","a","m","p","l","e","/","v","2",".","m","p","4">>

E_split == Entry(TRUE, Some(V_split), Some("a2.m4a"), FALSE, Nothing, Nothing, FloatNum(95))
E_image == Entry(TRUE, Nothing, Nothing, FALSE, Some("i1.jpg"), Nothing, FloatNum(0))
E_thumb == Entry(TRUE, Nothing, Nothing, FALSE, Nothing, Some("t2.jpg"), FloatNum(30))
E_none  == Entry(TRUE, Nothing, Nothing, FALSE, Nothing, Nothing, FloatNum(0))
E_junk  == Entry(FALSE, Nothing, Nothing, FALSE, Nothing, Nothing, FloatNum(0))

EntryKinds == {E_video, E_split, E_image, E_thumb, E_none, E_junk}

\* The dict extract_info returns: a playlist with its "entries" and what
\* _pick_image_url finds on the playlist itself, or a single post.
Playlist(es, picked_image) == [type |-> "playlist", entries |-> es, picked_image |-> picked_image, thumbnail |-> Nothing, duration |-> FloatNum(0)]

\* A single post is its own only entry (line 101).
Single(e) == [type |-> "video", entries |-> <<e>>, picked_image |-> e.picked_image, thumbnail |-> e.thumbnail, duration |-> e.duration]

NoInfo == Playlist(<<>>, Nothing)

\* _iter_entries, lines 96-101
IterEntries(d) ==
    IF d.type = "playlist"
    THEN SelectSeq(d.entries, LAMBDA e : e.isdict)
    ELSE d.entries

\* cache_dir / generate_file_name(url, ".mp4"): the file a url is kept in
OutputPath(url) == <<url, ".mp4">>

APathTo(p) == [kind |-> "Path", url |-> p]

\* The final url of a reel and of a photo post.
U_reel == <<"h","t","t","p","s",":","/","/","w","w","w",".","i","n","s","t","a","g","r","a","m",".","c","o","m","/","r","e","e","l","/","r","1","/">>
U_post == <<"h","t","t","p","s",":","/","/","w","w","w",".","i","n","s","t","a","g","r","a","m",".","c","o","m","/","p","/","p","1","/">>

\* is_video_url, line 207
IsVideoUrl(url) == \E key \in {<<"/","r","e","e","l","/">>, <<"/","r","e","e","l","s","/">>, <<"/","t","v","/">>} : Contains(url, key)

\* One line of the record of what a call did: an attempt, a sleep, a call of
\* _download_with_ytdlp, a download handed to the downloader. n is the
\* attempt, the seconds or the entry; hit tells whether the output file
\* existed.
Did(op, n, hit) == [op |-> op, n |-> n, hit |-> hit]

\* await asyncio.sleep(1 + attempt), lines 61 and 91
Backoff_constant(k) == 1

Backoff(k) == 1 + k

\* The locals of _parse that the loop changes.
Locals(cs, os, me, tried, lg) == [contents |-> cs, origins |-> os, meta_entry |-> me, fallback_video_tried |-> tried, log |-> lg]

\* contents.append(c) for entry i, and line 266 or 280.
Appended_front(st, c, i) == [st EXCEPT !.contents = <<c>> \o @, !.origins = <<i>> \o @, !.meta_entry = IF @ = 0 THEN i ELSE @]

Appended(st, c, i) == [st EXCEPT !.contents = Append(@, c), !.origins = Append(@, i), !.meta_entry = IF @ = 0 THEN i ELSE @]

\* image_url, line 218
ImageUrlOf(e) == IF e.video_url # Nothing THEN Nothing ELSE e.picked_image

\* cover_task, lines 224-230 and 254-260
CoverTask(e) == IF e.thumbnail # Nothing THEN DownloadTask(e.thumbnail[1]) ELSE RefNone

\* Line 221: the entry has nothing the loop can use.
Skipped(e, video) ==
    e.video_url = Nothing /\ ImageUrlOf(e) = Nothing /\ ~(video /\ e.thumbnail # Nothing)

\* Lines 231-252: the entry has a video format. With a separate audio
\* format the merged file is used if it exists, else a merge is scheduled.
VideoEntry_alwaysMerges(st, e, i, files) ==
    IF e.audio_url # Nothing /\ ~e.has_audio
    THEN Appended([st EXCEPT !.log = Append(@, Did("download_av_and_merge", i,
                                                  OutputPath(e.video_url[1]) \in files))],
                  VideoContent(DownloadTask(e.video_url[1]), CoverTask(e), e.duration), i)
    ELSE Appended([st EXCEPT !.log = Append(@, Did("download_video", i, FALSE))],
                  VideoContent(DownloadTask(e.video_url[1]), CoverTask(e), e.duration), i)

VideoEntry(st, e, i, files) ==
    IF e.audio_url # Nothing /\ ~e.has_audio
    THEN IF OutputPath(e.video_url[1]) \in files
         THEN Appended(st, VideoContent(APathTo(OutputPath(e.video_url[1])), CoverTask(e), e.duration), i)
         ELSE Appended([st EXCEPT !.log = Append(@, Did("download_av_and_merge", i,
                                                       OutputPath(e.video_url[1]) \in files))],
                       VideoContent(DownloadTask(e.video_url[1]), CoverTask(e), e.duration), i)
    ELSE Appended([st EXCEPT !.log = Append(@, Did("download_video", i, FALSE))],
                  VideoContent(DownloadTask(e.video_url[1]), CoverTask(e), e.duration), i)

\* Lines 271-279: the image of the entry, or its thumbnail.
ImageEntry(st, e, i) ==
    IF ImageUrlOf(e) # Nothing
    THEN Appended(st, ImageContent(DownloadTask(ImageUrlOf(e)[1])), i)
    ELSE IF e.thumbnail # Nothing
         THEN Appended(st, ImageContent(CoverTask(e)), i)
         ELSE st

\* Line 261: the whole post is to be downloaded for this entry.
TriesFallback_always(st, e, video) == video

TriesFallback(st, e, video) == video /\ ~st.fallback_video_tried

\* Lines 264-268 when _download_with_ytdlp returned a path.
FallbackVideo(st, e, i, url) ==
    Appended(st, VideoContent(APathTo(OutputPath(url)), CoverTask(e), e.duration), i)

\* Where the loop of lines 214-281 stands: at = 0 when it is over, else the
\* entry whose whole-post download it awaits.
Stopped(st, at) == [st |-> st, at |-> at]

\* The loop from entry i on, up to the first await that suspends.
\* _download_with_ytdlp returns at once, without a suspension, when the
\* output file exists (lines 67-69).
RECURSIVE LoopFrom(_, _, _, _, _, _)
LoopFrom(es, i, st, url, files, resumed) ==
    IF i > Len(es) THEN Stopped(st, 0)
    ELSE LET e == es[i] IN
         IF resumed THEN LoopFrom(es, i + 1, ImageEntry(st, e, i), url, files, FALSE)
         ELSE IF Skipped(e, IsVideoUrl(url)) THEN LoopFrom(es, i + 1, st, url, files, FALSE)
         ELSE IF e.video_url # Nothing
              THEN LoopFrom(es, i + 1, VideoEntry(st, e, i, files), url, files, FALSE)
         ELSE IF TriesFallback(st, e, IsVideoUrl(url))
              THEN LET tried == [st EXCEPT !.fallback_video_tried = TRUE,
                                           !.log = Append(@, Did("_download_with_ytdlp", i,
                                                                 OutputPath(url) \in files))]
                   IN  IF OutputPath(url) \in files
                       THEN LoopFrom(es, i + 1, FallbackVideo(tried, e, i, url), url, files, FALSE)
                       ELSE Stopped(tried, i)
         ELSE LoopFrom(es, i + 1, ImageEntry(st, e, i), url, files, FALSE)

\* InstagramParser.result, lines 313-328
IgResult(contents) ==
    ParseResult(PlatformOf("InstagramParser"), Nothing, Some("title"), Nothing, Some(17),
                Nothing, contents, "extra0", Nothing, RefNone)

\* Where the call stands after a step: the await it is suspended at, or done.
IgStand(at, st, i, out) == [pc |-> at, st |-> st, entry_i |-> i, out |-> out]

IgReturn(st) == IgStand("done", st, 0, Returned(IgResult(st.contents), <<>>))

\* The first ydl.download of a _download_with_ytdlp call (line 85).
AwaitDownload(st, i, url, files) ==
    IgStand("download", [st EXCEPT !.log = Append(@, Did("ydl.download", 0, OutputPath(url) \in files))],
            i, NoOutcome)

\* Lines 302-312: the image of the post as the last resort, or the error.
LastResort(st, d) ==
    IF st.contents # <<>> THEN IgReturn(st)
    ELSE IF d.picked_image # Nothing
         THEN IgReturn(Appended(st, ImageContent(DownloadTask(d.picked_image[1])), 0))
         ELSE IgStand("done", st, 0, Raised("ParseException"))

\* Lines 283-301: with no contents and a video url the whole post is
\* downloaded, unless the loop has tried that.
PostLoop(st, d, url, files) ==
    IF st.contents # <<>> THEN IgReturn(st)
    ELSE IF IsVideoUrl(url) /\ ~st.fallback_video_tried
         THEN LET called == [st EXCEPT !.log = Append(@, Did("_download_with_ytdlp", 0,
                                                            OutputPath(url) \in files))]
              IN  IF OutputPath(url) \in files
                  THEN IgReturn(Appended(called, VideoContent(APathTo(OutputPath(url)),
                                                            CoverTask(d), d.duration), 0))
                  ELSE AwaitDownload(called, 0, url, files)
         ELSE LastResort(st, d)

\* _parse from entry i on, up to the next suspension.
Run(d, i, st, url, files, resumed) ==
    LET l == LoopFrom(IterEntries(d), i, st, url, files, resumed)
    IN  IF l.at > 0 THEN AwaitDownload(l.st, l.at, url, files) ELSE PostLoop(l.st, d, url, files)

\* The merges the log says were handed to the downloader.
Merges(lg, es) ==
    {OutputPath(es[lg[k].n].video_url[1]) : k \in {j \in 1..Len(lg) : lg[j].op = "download_av_and_merge"}}

IgLocals == Locals(ig_contents, origins, meta_entry, fallback_video_tried, ilog)

IgGoes(stand, d) ==
    /\ ipc' = stand.pc
    /\ entry_i' = stand.entry_i
    /\ ig_outcome' = stand.out
    /\ ig_contents' = stand.st.contents
    /\ origins' = stand.st.origins
    /\ meta_entry' = stand.st.meta_entry
    /\ fallback_video_tried' = stand.st.fallback_video_tried
    /\ ilog' = stand.st.log
    /\ pending' = pending \cup Merges(stand.st.log, IterEntries(d))

\* _parse, lines 205-208: the final url is known and _extract_info makes its
\* first attempt.
IgParse(url, payload) ==
    /\ ipc = "idle"
    /\ final_url' = url
    /\ info' = payload
    /\ attempt' = 0
    /\ IgGoes(IgStand("extract", Locals(<<>>, <<>>, 0, FALSE, <<Did("extract_info", 0, FALSE)>>), 0, NoOutcome), payload)
    /\ UNCHANGED cache_dir
    /\ UNCHANGED <<regVars, resVars, fpVars, dyVars, plVars>>

\* _extract_info, lines 54-63, when the thread of an attempt ends: with the
\* dict, with something that is not a dict, or with an exception.
ExtractReturns(raw) ==
    /\ ipc = "extract"
    /\ IF raw = "dict"
       THEN /\ IgGoes(Run(info, 1, IgLocals, final_url, cache_dir, FALSE), info)
            /\ attempt' = 0
       ELSE IF attempt < Retries
            THEN /\ IgGoes(IgStand("extract_sleep",
                                   [IgLocals EXCEPT !.log = Append(@, Did("sleep", Backoff(attempt), FALSE))],
                                   0, NoOutcome), info)
                 /\ UNCHANGED attempt
            ELSE /\ IgGoes(IgStand("done", IgLocals, 0, Raised("ParseException")), info)
                 /\ UNCHANGED attempt
    /\ UNCHANGED <<final_url, info, cache_dir>>
    /\ UNCHANGED <<regVars, resVars, fpVars, dyVars, plVars>>

\* The sleep of line 61 is over: the next attempt.
ExtractRetries ==
    /\ ipc = "extract_sleep"
    /\ attempt' = attempt + 1
    /\ IgGoes(IgStand("extract", [IgLocals EXCEPT !.log = Append(@, Did("extract_info", attempt + 1, FALSE))],
                      0, NoOutcome), info)
    /\ UNCHANGED <<final_url, info, cache_dir>>
    /\ UNCHANGED <<regVars, resVars, fpVars, dyVars, plVars>>

\* _download_with_ytdlp, lines 85-93, when the thread of an attempt ends.
\* A download that succeeded has written output_path (outtmpl, line 74);
\* after the last failure _parse catches the ParseException (lines 269, 300).
DownloadReturns(ok) ==
    /\ ipc = "download"
    /\ IF ok
       THEN /\ cache_dir' = cache_dir \cup {OutputPath(final_url)}
            /\ attempt' = 0
            /\ IgGoes(IF entry_i > 0
                      THEN Run(info, entry_i + 1,
                               FallbackVideo(IgLocals, IterEntries(info)[entry_i], entry_i, final_url),
                               final_url, cache_dir', FALSE)
                      ELSE IgReturn(Appended(IgLocals, VideoContent(APathTo(OutputPath(final_url)),
                                                                   CoverTask(info), info.duration), 0)), info)
       ELSE /\ cache_dir' = cache_dir \ {OutputPath(final_url)}
            /\ IF attempt < Retries
               THEN /\ IgGoes(IgStand("download_sleep",
                                      [IgLocals EXCEPT !.log = Append(@, Did("sleep", Backoff(attempt), FALSE))],
                                      entry_i, NoOutcome), info)
                    /\ UNCHANGED attempt
               ELSE /\ attempt' = 0
                    /\ IgGoes(IF entry_i > 0
                              THEN Run(info, entry_i, IgLocals, final_url, cache_dir', TRUE)
                              ELSE LastResort(IgLocals, info), info)
    /\ UNCHANGED <<final_url, info>>
    /\ UNCHANGED <<regVars, resVars, fpVars, dyVars, plVars>>

\* The sleep of line 91 is over: the next attempt.
DownloadRetries ==
    /\ ipc = "download_sleep"
    /\ attempt' = attempt + 1
    /\ IgGoes(IgStand("download", [IgLocals EXCEPT !.log = Append(@, Did("ydl.download", attempt + 1, OutputPath(final_url) \in cache_dir))],
                      entry_i, NoOutcome), info)
    /\ UNCHANGED <<final_url, info, cache_dir>>
    /\ UNCHANGED <<regVars, resVars, fpVars, dyVars, plVars>>

\* A merge the downloader was handed ends, with the merged file at the
\* output_path it was given (line 241) or without it.
MergeEnds(p, ok) ==
    /\ p \in pending
    /\ pending' = pending \ {p}
    /\ cache_dir' = IF ok THEN cache_dir \cup {p} ELSE cache_dir
    /\ UNCHANGED <<ipc, final_url, info, entry_i, ig_contents, origins, meta_entry,
                   fallback_video_tried, attempt, ilog, ig_outcome>>
    /\ UNCHANGED <<regVars, resVars, fpVars, dyVars, plVars>>

\* The caller has the outcome; the call is over. The files stay.
IgEnd ==
    /\ ipc = "done"
    /\ ipc' = "idle"
    /\ final_url' = U_post
    /\ info' = NoInfo
    /\ entry_i' = 0
    /\ ig_contents' = <<>>
    /\ origins' = <<>>
    /\ meta_entry' = 0
    /\ fallback_video_tried' = FALSE
    /\ attempt' = 0
    /\ ilog' = <<>>
    /\ ig_outcome' = NoOutcome
    /\ UNCHANGED <<cache_dir, pending>>
    /\ UNCHANGED <<regVars, resVars, fpVars, dyVars, plVars>>

\* The payloads extract_info returns.
RECURSIVE EntryLists(_)
EntryLists(n) ==
    IF n = 0 THEN {<<>>}
    ELSE EntryLists(n - 1) \cup {Append(es, e) : es \in {l \in EntryLists(n - 1) : Len(l) = n - 1}, e \in EntryKinds}

Infos ==
    {Single(e) : e \in EntryKinds \ {E_junk}}
    \cup {Playlist(es, img) : es \in EntryLists(MaxEntries), img \in {Nothing, Some("post.jpg")}}

\* InstagramParser(config, downloader): no call made, an empty cache_dir.
IgCreated ==
    /\ ipc = "idle"
    /\ final_url = U_post
    /\ info = NoInfo
    /\ entry_i = 0
    /\ ig_contents = <<>>
    /\ origins = <<>>
    /\ meta_entry = 0
    /\ fallback_video_tried = FALSE
    /\ attempt = 0
    /\ cache_dir = {}
    /\ pending = {}
    /\ ilog = <<>>
    /\ ig_outcome = NoOutcome

InstagramAtRest == IgCreated

NextInstagram ==
    \/ \E url \in {U_reel, U_post}, payload \in Infos : IgParse(url, payload)
    \/ \E raw \in {"dict", "none", "exception"} : ExtractReturns(raw)
    \/ ExtractRetries
    \/ \E ok \in BOOLEAN : DownloadReturns(ok)
    \/ DownloadRetries
    \/ \E p \in {OutputPath(V_split)}, ok \in BOOLEAN : MergeEnds(p, ok)
    \/ IgEnd

\* ------------------------------------------------------------------------
\* ParserPlugin.on_message past the match scan (main.py, lines 168-203)
\* ------------------------------------------------------------------------

NoParser == [cls |-> "none", inst |-> 0]

\* One line of what a call did past the scan: the arbitration, a debounce
\* check, the call of parse, its end, the call of send_parse_result.
Step(op, hit, parser) == [op |-> op, hit |-> hit, parser |-> parser]

Does(c, ss) == steps' = [steps EXCEPT ![c] = @ \o ss]

\* What line 169 sees of the event: an aiocqhttp event of a group chat with a
\* dict as raw_message, one whose raw_message is no dict, or any other event.
Chats == {"group", "group_noraw", "other"}

\* Lines 168-185. A group event of aiocqhttp competes; the call goes on when
\* it wins and returns when it loses or when raw_message is no dict.
Arbitrate(c, chat, is_win) ==
    /\ pc[c] = "matched"
    /\ chat # "group" => is_win
    /\ IF chat = "other"
       THEN /\ pc' = [pc EXCEPT ![c] = "arbitrated"]
            /\ Does(c, <<Step("no_arbiter", FALSE, NoParser)>>)
       ELSE IF chat = "group_noraw"
       THEN /\ pc' = [pc EXCEPT ![c] = "returned"]
            /\ Does(c, <<Step("bad_raw", FALSE, NoParser)>>)
       ELSE /\ pc' = [pc EXCEPT ![c] = IF is_win THEN "arbitrated" ELSE "returned"]
            /\ Does(c, <<Step("compete", is_win, NoParser)>>)
    /\ UNCHANGED <<enable_platforms, disabled_sessions, all_subclass, handle_order,
                   initialized, parser_map, key_pattern_list, event, keyword, searched, scanlog>>
    /\ UNCHANGED <<resVars, fpVars, dyVars, igVars>>

\* Lines 187-194: the link debounce, then the call of parse on the parser
\* that parser_map holds for the keyword.
LinkDebounce_ignored(c, hit) ==
    /\ pc[c] = "arbitrated"
    /\ pc' = [pc EXCEPT ![c] = "parsing"]
    /\ Does(c, <<Step("hit_link", hit, NoParser), Step("parse", FALSE, parser_map[keyword[c]])>>)
    /\ UNCHANGED <<enable_platforms, disabled_sessions, all_subclass, handle_order,
                   initialized, parser_map, key_pattern_list, event, keyword, searched, scanlog>>
    /\ UNCHANGED <<resVars, fpVars, dyVars, igVars>>

LinkDebounce(c, hit) ==
    /\ pc[c] = "arbitrated"
    /\ IF hit
       THEN /\ pc' = [pc EXCEPT ![c] = "returned"]
            /\ Does(c, <<Step("hit_link", TRUE, NoParser)>>)
       ELSE /\ pc' = [pc EXCEPT ![c] = "parsing"]
            /\ Does(c, <<Step("hit_link", FALSE, NoParser),
                         Step("parse", FALSE, parser_map[keyword[c]])>>)
    /\ UNCHANGED <<enable_platforms, disabled_sessions, all_subclass, handle_order,
                   initialized, parser_map, key_pattern_list, event, keyword, searched, scanlog>>
    /\ UNCHANGED <<resVars, fpVars, dyVars, igVars>>

\* Lines 194-203 when parse returns a ParseResult: the resource debounce on
\* its resource id, then the call of send_parse_result.
ParseReturns(c, hit) ==
    /\ pc[c] = "parsing"
    /\ IF hit
       THEN /\ pc' = [pc EXCEPT ![c] = "returned"]
            /\ Does(c, <<Step("parse_returned", FALSE, NoParser),
                         Step("hit_resource", TRUE, NoParser)>>)
       ELSE /\ pc' = [pc EXCEPT ![c] = "sending"]
            /\ Does(c, <<Step("parse_returned", FALSE, NoParser),
                         Step("hit_resource", FALSE, NoParser),
                         Step("send_parse_result", FALSE, NoParser)>>)
    /\ UNCHANGED <<enable_platforms, disabled_sessions, all_subclass, handle_order,
                   initialized, parser_map, key_pattern_list, event, keyword, searched, scanlog>>
    /\ UNCHANGED <<resVars, fpVars, dyVars, igVars>>

\* Line 194 when parse raises: nothing catches it, the call is over.
ParseRaises(c) ==
    /\ pc[c] = "parsing"
    /\ pc' = [pc EXCEPT ![c] = "returned"]
    /\ Does(c, <<Step("parse_raised", FALSE, NoParser)>>)
    /\ UNCHANGED <<enable_platforms, disabled_sessions, all_subclass, handle_order,
                   initialized, parser_map, key_pattern_list, event, keyword, searched, scanlog>>
    /\ UNCHANGED <<resVars, fpVars, dyVars, igVars>>

\* Line 203: send_parse_result ends.
SendEnds(c) ==
    /\ pc[c] = "sending"
    /\ pc' = [pc EXCEPT ![c] = "returned"]
    /\ UNCHANGED steps
    /\ UNCHANGED <<enable_platforms, disabled_sessions, all_subclass, handle_order,
                   initialized, parser_map, key_pattern_list, event, keyword, searched, scanlog>>
    /\ UNCHANGED <<resVars, fpVars, dyVars, igVars>>

\* The call is over; its locals are gone.
Finish(c) ==
    /\ pc[c] = "returned"
    /\ pc' = [pc EXCEPT ![c] = "idle"]
    /\ event' = [event EXCEPT ![c] = NoEvent]
    /\ keyword' = [keyword EXCEPT ![c] = <<>>]
    /\ searched' = [searched EXCEPT ![c] = NoMatch]
    /\ scanlog' = [scanlog EXCEPT ![c] = NoLog]
    /\ steps' = [steps EXCEPT ![c] = <<>>]
    /\ UNCHANGED <<enable_platforms, disabled_sessions, all_subclass, handle_order,
                   initialized, parser_map, key_pattern_list>>
    /\ UNCHANGED <<resVars, fpVars, dyVars, igVars>>

\* No call is past the scan.
PipelineAtRest == steps = [c \in Callers |-> <<>>]

\* The plugin as constructed when BaseParser has a further subclass that
\* binds the keyword "douyin" as DouyinParser does.
PluginShared ==
    /\ enable_platforms \in {{"Douyin"}, {"Douyin", "Instagram"}, {"Douyin", "Extra"},
                             {"Douyin", "Instagram", "Extra"}}
    /\ disabled_sessions = {"s2"}
    /\ all_subclass \in {<<"DouyinParser", "InstagramParser", "ExtraParser">>,
                         <<"ExtraParser", "DouyinParser", "InstagramParser">>}
    /\ handle_order \in HandleOrders
    /\ initialized = FALSE
    /\ parser_map = EmptyMap
    /\ key_pattern_list = <<>>
    /\ pc = [c \in Callers |-> "idle"]
    /\ event = [c \in Callers |-> NoEvent]
    /\ keyword = [c \in Callers |-> <<>>]
    /\ searched = [c \in Callers |-> NoMatch]
    /\ scanlog = [c \in Callers |-> NoLog]
    /\ PipelineAtRest

\* One call at a time, from the event to the end of the call.
NextPipeline ==
    \/ Initialize
    \/ OnMessage(1)
    \/ \E chat \in Chats, is_win \in BOOLEAN : Arbitrate(1, chat, is_win)
    \/ \E hit \in BOOLEAN : LinkDebounce(1, hit)
    \/ \E hit \in BOOLEAN : ParseReturns(1, hit)
    \/ ParseRaises(1)
    \/ SendEnds(1)
    \/ Finish(1)

\* ------------------------------------------------------------------------
\* Specifications: each runs one component and keeps the others as created.
\* ------------------------------------------------------------------------

\* No reference is in use.
ResolveAtRest ==
    /\ field = "path_task"
    /\ ref = APath("a.mp4")
    /\ task = TaskIn("none", None)
    /\ fetches = 0
    /\ wpc = [w \in Waiters |-> "idle"]
    /\ wret = [w \in Waiters |-> None]
    /\ wsusp = [w \in Waiters |-> FALSE]
    /\ delivered = {}

\* The plugin is constructed and receives nothing.
RegistryAtRest ==
    /\ PluginCreated
    /\ enable_platforms = {}
    /\ handle_order = "written"

InitRegistry == PluginCreated /\ ResolveAtRest /\ FingerprintAtRest /\ DouyinAtRest /\ InstagramAtRest /\ PipelineAtRest

InitResolve == ReferenceCreated /\ RegistryAtRest /\ FingerprintAtRest /\ DouyinAtRest /\ InstagramAtRest /\ PipelineAtRest

InitFingerprint == ResultsParsed /\ RegistryAtRest /\ ResolveAtRest /\ DouyinAtRest /\ InstagramAtRest /\ PipelineAtRest

InitDouyin == ParserCreated /\ RegistryAtRest /\ ResolveAtRest /\ FingerprintAtRest /\ InstagramAtRest /\ PipelineAtRest

InitCookies == ParserCreated /\ RegistryAtRest /\ FingerprintAtRest /\ ResolveAtRest /\ InstagramAtRest /\ PipelineAtRest

SpecRegistry == InitRegistry /\ [][NextRegistry]_vars

SpecResolve == InitResolve /\ [][NextResolve]_vars

SpecFingerprint == InitFingerprint /\ [][NextFingerprint]_vars

SpecDouyin == InitDouyin /\ [][NextDouyin]_vars

SpecCookies == InitCookies /\ [][NextCookies]_vars

InitInstagram == IgCreated /\ RegistryAtRest /\ ResolveAtRest /\ FingerprintAtRest /\ DouyinAtRest /\ PipelineAtRest

SpecInstagram == InitInstagram /\ [][NextInstagram]_vars

\* The thread pool runs a blocking call to its end and the event loop wakes
\* a sleeper.
SpecInstagramFair == SpecInstagram /\ WF_vars(\E raw \in {"dict", "none", "exception"} : ExtractReturns(raw)) /\ WF_vars(ExtractRetries)

InitPipeline == PluginShared /\ ResolveAtRest /\ FingerprintAtRest /\ DouyinAtRest /\ InstagramAtRest

SpecPipeline == InitPipeline /\ [][NextPipeline]_vars

\* ------------------------------------------------------------------------
\* Properties of the registry and of the match scan
\* ------------------------------------------------------------------------

\* The call of caller c has run the scan (it passed the guards).
Scanned(c) == pc[c] \in {"returned", "matched"} /\ ~ReturnsEarly(event[c])

Registered(kw) == \E i \in 1..Len(key_pattern_list) : key_pattern_list[i].kw = kw

\* C1: once _register_parser has built the registry, key_pattern_list is
\* ordered by descending keyword length; and with both "douyin" and
\* "jx.douyin" registered, a text containing https://jx.douyin.com/abc is
\* matched under the keyword "jx.douyin".
C1_LongestKeywordFirst ==
    initialized =>
        /\ \A i, j \in 1..Len(key_pattern_list) :
               i < j => Len(key_pattern_list[i].kw) >= Len(key_pattern_list[j].kw)
        /\ \A c \in Callers :
               ( /\ Scanned(c)
                 /\ Contains(EventText(event[c]), T_jx)
                 /\ Registered(KW_douyin)
                 /\ Registered(KW_jx_douyin) )
               => /\ pc[c] = "matched"
                  /\ keyword[c] = KW_jx_douyin

\* A call matched a text that holds both a jx.douyin link and a douyin.com
\* link, with every binding of both platforms registered from an order that
\* was not already sorted.
C1_Witness ==
    /\ initialized
    /\ Len(key_pattern_list) = 8
    /\ handle_order = "written"
    /\ \E c \in Callers :
           /\ pc[c] = "matched"
           /\ EventText(event[c]) = T_jxboth
           /\ keyword[c] = KW_jx_douyin

\* Entry i of the list applies to the text: the keyword is a substring and
\* the pattern is found.
Applies(i, text) ==
    /\ Contains(text, key_pattern_list[i].kw)
    /\ Search(key_pattern_list[i].pat, text) # NoMatch

\* C2: the scan selects the first entry of the list whose keyword is in the
\* text and whose pattern is found; it tests the keyword of every entry up
\* to that one and of none after it, evaluates the pattern of exactly the
\* tested entries whose keyword is in the text, and reports no match when no
\* entry applies.
C2_FirstApplicableEntry ==
    \A c \in Callers :
        Scanned(c) =>
            LET text == EventText(event[c])
                n    == Len(key_pattern_list)
                hits == {j \in 1..n : Applies(j, text)}
                last == IF hits = {} THEN n
                        ELSE CHOOSE j \in hits : \A k \in hits : j <= k
            IN  /\ scanlog[c].kwTests = 1..last
                /\ scanlog[c].reEvals =
                       {j \in 1..last : Contains(text, key_pattern_list[j].kw)}
                /\ IF hits = {}
                   THEN /\ pc[c] = "returned"
                        /\ searched[c] = NoMatch
                        /\ keyword[c] = <<>>
                        /\ scanlog[c].idx = 0
                   ELSE /\ pc[c] = "matched"
                        /\ scanlog[c].idx = last
                        /\ keyword[c] = key_pattern_list[last].kw
                        /\ searched[c] = Search(key_pattern_list[last].pat, text)

\* A scan skipped an entry whose keyword is in the text but whose pattern is
\* not found, then selected a later entry although a still later one applies.
C2_Witness ==
    \E c \in Callers :
        /\ pc[c] = "matched"
        /\ \E j \in scanlog[c].reEvals : j < scanlog[c].idx
        /\ \E k \in 1..Len(key_pattern_list) :
               k > scanlog[c].idx /\ Applies(k, EventText(event[c]))

\* C3 (determinism): two calls that scanned the same text hold the same
\* keyword and the same match.
C3_SameTextSameMatch ==
    \A c1, c2 \in Callers :
        ( /\ Scanned(c1)
          /\ Scanned(c2)
          /\ EventText(event[c1]) = EventText(event[c2]) )
        => /\ keyword[c1] = keyword[c2]
           /\ searched[c1] = searched[c2]
           /\ pc[c1] = pc[c2]

\* C3: matching is deterministic and read-only: calls that scan the same
\* text select the same (keyword, match), and once the registry is built no
\* step of any call changes key_pattern_list or parser_map.
C3_DeterministicReadOnly ==
    /\ []C3_SameTextSameMatch
    /\ [][initialized => /\ key_pattern_list' = key_pattern_list
                         /\ parser_map' = parser_map]_vars

\* Two calls are in flight on the same text and both hold a match.
C3_Witness ==
    \E c1, c2 \in Callers :
        /\ c1 # c2
        /\ pc[c1] = "matched"
        /\ pc[c2] = "matched"
        /\ EventText(event[c1]) = EventText(event[c2])


\* ------------------------------------------------------------------------
\* Properties of the resolvable reference
\* ------------------------------------------------------------------------

\* The reference was created pending: a Task stands behind it.
CreatedPending == task.state # "none"

\* C4: single flight. Whatever the number and the interleaving of the calls
\* on a pending reference, its fetch is started at most once (exactly once
\* when it has completed), every call that returns yields the fetch's
\* result, and so does every later call.
C4_SingleFlight ==
    CreatedPending =>
        /\ fetches <= 1
        /\ task.state \in {"running", "done", "failed"} => fetches = 1
        /\ delivered \subseteq (IF task.state = "done" THEN {task.result} ELSE {})
        /\ \A w \in Waiters : wpc[w] = "returned" => wret[w] = task.result
        /\ IsPath(ref) => task.state = "done" /\ ref.v = task.result

\* Two calls suspended on the pending reference and both have returned.
C4_Witness ==
    /\ CreatedPending
    /\ fetches = 1
    /\ \E w1, w2 \in Waiters :
           /\ w1 # w2
           /\ wpc[w1] = "returned" /\ wsusp[w1]
           /\ wpc[w2] = "returned" /\ wsusp[w2]
           /\ wret[w1] = wret[w2]
           /\ wret[w1] \in Paths

\* C5: a reference is Immediate (a Path) or Pending (a Task). A call on an
\* Immediate reference returns its value at once, without suspending and
\* without changing it; a Pending reference becomes Immediate only with the
\* result of its completed fetch; an Immediate reference never changes.
C5_PendingToImmediateOnce ==
    /\ [](ref \in {IsNone, ATask} \cup {APath(p) : p \in Paths})
    /\ [][ /\ IsPath(ref) => ref' = ref
           /\ (ref = ATask /\ ref' # ref) =>
                  /\ task.state = "done"
                  /\ ref' = APath(task.result)
           /\ \A w \in Waiters :
                  (wpc[w] = "idle" /\ wpc'[w] # "idle" /\ IsPath(ref)) =>
                      /\ wpc'[w] = "returned"
                      /\ wret'[w] = ref.v
                      /\ ~wsusp'[w]
         ]_vars

\* The reference was pending and is now Immediate; one call got its value
\* after suspending, another without suspending.
C5_Witness ==
    /\ CreatedPending
    /\ IsPath(ref)
    /\ \E w1, w2 \in Waiters :
           /\ wpc[w1] = "returned" /\ wsusp[w1]
           /\ wpc[w2] = "returned" /\ ~wsusp[w2]
           /\ wret[w2] = ref.v

\* C6: when the fetch fails the reference stays Pending and no value is
\* memoized or returned; every call that waits for it can be resumed, and
\* the only way it leaves its await is by raising the failure.
C6_FailurePropagates ==
    /\ [](task.state = "failed" =>
              /\ ref = ATask
              /\ delivered = {}
              /\ \A w \in Waiters :
                     /\ wpc[w] # "returned"
                     /\ wpc[w] = "awaiting" => ENABLED Resume(w))
    /\ [][\A w \in Waiters :
              (task.state = "failed" /\ wpc[w] = "awaiting" /\ wpc'[w] # "awaiting")
              => wpc'[w] = "raised"]_vars

\* The fetch failed while two calls were suspended on it; both have raised.
C6_Witness ==
    /\ task.state = "failed"
    /\ ref = ATask
    /\ \E w1, w2 \in Waiters :
           /\ w1 # w2
           /\ wpc[w1] = "raised" /\ wsusp[w1]
           /\ wpc[w2] = "raised" /\ wsusp[w2]

\* ------------------------------------------------------------------------
\* Properties of the resource fingerprint
\* ------------------------------------------------------------------------

\* get_resource_id has stored an id in object r.
Fingerprinted(r) == results[r]._resource_id # Nothing

\* The tag of a content and the scalars get_resource_id reads from it.
ContentView(c) ==
    [cls |-> c.cls,
     scalars |-> IF c.cls \in {S_VideoContent, S_AudioContent} THEN <<c.duration>>
                 ELSE IF c.cls = S_FileContent THEN <<c.name>>
                 ELSE IF c.cls = S_GraphicsContent THEN <<c.text, c.alt>>
                 ELSE <<>>]

\* The fields of a result get_resource_id reads.
FpView(res) ==
    [platform |-> res.platform.name,
     url |-> res.url,
     timestamp |-> res.timestamp,
     author |-> IF res.author = Nothing THEN Nothing ELSE Some(res.author[1].name),
     count |-> Len(res.contents),
     contents |-> [i \in 1..Len(res.contents) |-> ContentView(res.contents[i])],
     repost |-> IF res.repost = Nothing THEN Nothing
                ELSE Some(ResourceId(res.repost[1]).id)]

\* The media references of a result and of its repost, and the fields that
\* are not fingerprinted.
RECURSIVE MediaView(_)
MediaView(res) ==
    [avatar |-> IF res.author = Nothing THEN RefNone ELSE res.author[1].avatar,
     contents |-> [i \in 1..Len(res.contents) |->
                      <<res.contents[i].path_task, res.contents[i].cover,
                        res.contents[i].gif_path>>],
     repost |-> IF res.repost = Nothing THEN Nothing ELSE Some(MediaView(res.repost[1]))]

\* C7: the id depends only on the fingerprinted fields. Two results that
\* agree on platform name, url, timestamp, author name, number of contents,
\* each content's class and scalars, and the id of the repost have the
\* same id, whatever their media references, title, text, extra and
\* render_image are.
C7_FingerprintIgnoresMedia ==
    \A r1, r2 \in Objects :
        ( /\ Fingerprinted(r1)
          /\ Fingerprinted(r2)
          /\ FpView(results[r1]) = FpView(results[r2]) )
        => /\ results[r1]._resource_id = results[r2]._resource_id
           /\ \A x \in rets[r1], y \in rets[r2] : x.id = y.id

\* Both results have their id; they agree on the fingerprinted fields and
\* differ in the state of their media references.
C7_Witness ==
    /\ Fingerprinted("A")
    /\ Fingerprinted("B")
    /\ FpView(results["A"]) = FpView(results["B"])
    /\ results["A"].contents # <<>>
    /\ MediaView(results["A"]) # MediaView(results["B"])
    /\ results["A"]._resource_id = results["B"]._resource_id

\* The number of delimiter bytes in a byte string
Delimiters(bytes) == Cardinality({k \in 1..Len(bytes) : bytes[k] = Ord["|"]})

\* The number of fields a contents list holds: for each content its tag
\* and the scalars of its class.
RECURSIVE ContentFields(_)
ContentFields(contents) ==
    IF contents = <<>> THEN 0
    ELSE 1 + Len(ContentView(Head(contents)).scalars) + ContentFields(Tail(contents))

\* The number of fields of a result: platform name, url, timestamp, author
\* name, content count, the fields of the contents, and the repost's id
\* when there is a repost.
FieldCount(res) ==
    5 + ContentFields(res.contents) + (IF res.repost = Nothing THEN 0 ELSE 1)

\* C8: every field of a result is followed by one delimiter in the bytes
\* fed to the hasher, whether the field is present or None, and two results
\* that differ in a fingerprinted field are never fed as the same bytes.
C8_EveryFieldDelimited ==
    /\ \A r \in Objects :
           stream[r] # Nothing => Delimiters(stream[r][1]) = FieldCount(results[r])
    /\ \A r1, r2 \in Objects :
           ( /\ stream[r1] # Nothing
             /\ stream[r2] # Nothing
             /\ FpView(results[r1]) # FpView(results[r2]) )
           => stream[r1] # stream[r2]

\* A result without its memoized ids
RECURSIVE Unmemo(_)
Unmemo(res) ==
    [res EXCEPT !._resource_id = Nothing,
                !.repost = IF @ = Nothing THEN @ ELSE Some(Unmemo(@[1]))]

\* Every media reference of a result and of its repost is a Task.
RECURSIVE AllRefsPending(_)
AllRefsPending(res) ==
    /\ res.author # Nothing
    /\ res.author[1].avatar = RefTask
    /\ res.contents # <<>>
    /\ \A i \in 1..Len(res.contents) :
           /\ res.contents[i].path_task = RefTask
           /\ res.contents[i].cls = S_VideoContent => res.contents[i].cover = RefTask
    /\ res.repost # Nothing => AllRefsPending(res.repost[1])

\* C9: get_resource_id reads no media reference, so it runs to its return
\* while they are Tasks, and a call changes nothing of any result but the
\* memoized _resource_id of the result and of its repost: no reference is
\* resolved by it, and a reference is a Task after the call if it was one
\* before.
C9_NoResolutionNoIO ==
    [][ (rets' # rets \/ hashcount' # hashcount \/ stream' # stream)
        => \A r \in Objects :
               /\ Unmemo(results'[r]) = Unmemo(results[r])
               /\ PendingRefs(results'[r]) = PendingRefs(results[r]) ]_vars

\* A result with a repost has got its id, and the repost its own, while
\* every media reference of both is still a Task.
C9_Witness ==
    \E r \in Objects :
        /\ Fingerprinted(r)
        /\ rets[r] # {}
        /\ results[r].repost # Nothing
        /\ results[r].repost[1]._resource_id # Nothing
        /\ AllRefsPending(results[r])

\* The number of results in the repost chain of a result
RECURSIVE ChainLength(_)
ChainLength(res) ==
    IF res.repost = Nothing THEN 1 ELSE 1 + ChainLength(res.repost[1])

\* C10: the id is computed once. Every call returns the stored id, each
\* result of the chain is hashed once, and once the id is stored no call
\* changes it or builds a hasher, also after media references resolved.
C10_ComputedOnce ==
    /\ [](\A r \in Objects :
              /\ rets[r] # {} =>
                     /\ Fingerprinted(r)
                     /\ hashcount[r] = ChainLength(results[r])
                     /\ \A x \in rets[r] : x.id = results[r]._resource_id[1]
              /\ rets[r] = {} => hashcount[r] = 0)
    /\ [][\A r \in Objects :
              Fingerprinted(r) =>
                  /\ results'[r]._resource_id = results[r]._resource_id
                  /\ hashcount'[r] = hashcount[r]
                  /\ stream'[r] = stream[r] ]_vars

\* A result was asked for its id while a reference was pending and again
\* after that reference had resolved; it was hashed once.
C10_Witness ==
    /\ Fingerprinted(Sent)
    /\ moved[Sent]
    /\ Cardinality(rets[Sent]) = 2
    /\ \E x \in rets[Sent] : x.moved
    /\ \E x \in rets[Sent] : ~x.moved
    /\ hashcount[Sent] = 1

\* ------------------------------------------------------------------------
\* Properties of DouyinParser
\* ------------------------------------------------------------------------

RedirectStatuses == {301, 302, 303, 307, 308}

\* The answered requests of call c that parse_with_redirect made.
ShortRequests(c) ==
    {i \in 1..Len(trace[c]) : trace[c][i].by = "parse_with_redirect" /\ trace[c][i].status # 0}

\* The response to request e names no target to go to.
Unresolved(e) ==
    \/ e.status \notin RedirectStatuses
    \/ e.location = Nothing
    \/ e.location = Some(e.url)

\* The method the handler matching url starts with.
MethodFor(url) ==
    LET ks == SearchUrl(url)
    IN  IF ks.keyword \in {KW_v_douyin, KW_jx_douyin} THEN "parse_with_redirect"
        ELSE IF Contains(ks.searched.group0, <<"/">> \o W_slides \o <<"/">>) THEN "parse_slides"
        ELSE "parse_video"

\* What call c did after its i-th request: the method of the next request,
\* sent or about to be sent, or "none" when the call ended there.
ThenCalled(c, i) ==
    IF i < Len(trace[c]) THEN trace[c][i + 1].by
    ELSE IF dpc[c] \in {"short_get", "video_get", "slides_get"} THEN MethodAt(dpc[c])
    ELSE "none"

\* C11: parse_with_redirect makes one GET and follows no redirect itself.
\* When the response is not a redirect, has no Location, or its Location is
\* the requested url, the call ends there with ParseException: no handler is
\* dispatched and no result returned. Otherwise the target is matched
\* against the bindings and the handler of the match is what runs next.
C11_ShortLinkResolution ==
    \A c \in Calls : \A i \in ShortRequests(c) :
        LET e == trace[c][i]
        IN  IF Unresolved(e)
            THEN /\ i = Len(trace[c])
                 /\ dpc[c] = "done"
                 /\ outcome[c] = Raised("ParseException")
            ELSE SearchUrl(e.location[1]).searched # NoMatch
                    => ThenCalled(c, i) = MethodFor(e.location[1])

C11_Witness ==
    /\ Len(trace["c1"]) = 2
    /\ trace["c1"][1].url = U_short
    /\ trace["c1"][1].status = 302
    /\ trace["c1"][1].location = Some(U_short2)
    /\ trace["c1"][2].location = Some(T_slides)
    /\ dpc["c1"] = "slides_get"

\* C12: every response a call receives has its Set-Cookie headers merged
\* into the instance cookie, whatever its status and whatever the call does
\* next: no request of a trace has its Set-Cookie headers dropped.
C12_EveryResponseMerged ==
    \A c \in Calls : \A i \in 1..Len(trace[c]) : trace[c][i].kept # "dropped"

\* The name=value parts of a list of cookie strings, read off the text.
NamedParts(parts) ==
    SelectSeq([i \in 1..Len(parts) |-> Strip(parts[i])],
              LAMBDA part : part # <<>> /\ HasChar(part, "="))

NameOf(part) == Strip(SplitOnce(part, "=")[1])

ValueOf(part) == Strip(SplitOnce(part, "=")[2])

NamesIn(parts) == {NameOf(NamedParts(parts)[i]) : i \in 1..Len(NamedParts(parts))}

\* The value of the last part that names n.
LastValue(parts, n) ==
    LET ps == NamedParts(parts)
        i == CHOOSE k \in 1..Len(ps) :
                 NameOf(ps[k]) = n /\ \A j \in (k + 1)..Len(ps) : NameOf(ps[j]) # n
    IN  ValueOf(ps[i])

\* The parts of a cookie string, and the cookie each Set-Cookie header sets.
CookieParts(ck) == Split(ck, ";")

DirectiveParts(headers) == [i \in 1..Len(headers) |-> Split(headers[i], ";")[1]]

\* Call c merges Set-Cookie headers in this step; they are merged_headers'.
MergeStep(c) ==
    /\ trace'[c] # trace[c]
    /\ trace'[c] # <<>>
    /\ Last(trace'[c]).kept = "merged"

\* The cookie string after holds every name the headers set with the value
\* of the last header naming it, and every other name of the cookie string
\* before with the value it had.
MergedFrom(before, headers, after) ==
    /\ \A n \in NamesIn(DirectiveParts(headers)) :
          /\ n \in NamesIn(CookieParts(after))
          /\ LastValue(CookieParts(after), n) = LastValue(DirectiveParts(headers), n)
    /\ \A n \in NamesIn(CookieParts(before)) \ NamesIn(DirectiveParts(headers)) :
          /\ n \in NamesIn(CookieParts(after))
          /\ LastValue(CookieParts(after), n) = LastValue(CookieParts(before), n)

\* C13: after a merge every name set by a Set-Cookie header maps to the
\* value of the last header naming it, and every name of the previous
\* cookie that no header names keeps its value; no name is dropped, in any
\* sequence of merges.
C13_MergeKeepsNames ==
    [][\A c \in Calls : MergeStep(c) => MergedFrom(douyin_ck, merged_headers', douyin_ck')]_vars

C13_Witness ==
    /\ merged_headers = H_aa
    /\ douyin_ck = <<"b","=","1",";"," ","a","=","2">>
    /\ \E c \in Calls : trace[c] # <<>> /\ Last(trace[c]).kept = "merged"

\* The cookie a header profile or the cookie file holds ("" when none).
Held(x) == IF x = Nothing THEN <<>> ELSE x[1]

\* The persisted record, the instance cookie and both header profiles agree.
CookiesAgree ==
    /\ Held(cookies_file) = douyin_ck
    /\ Held(ios_headers) = douyin_ck
    /\ Held(android_headers) = douyin_ck

\* C14: when the merged string differs from the current cookie it replaces
\* it, is set as the Cookie of both header profiles and is written to the
\* cookie file; when it does not differ, none of the four changes. After
\* every merge the file, the instance cookie and both profiles agree.
C14_ChangeAppliedEverywhere ==
    [][\A c \in Calls : MergeStep(c) =>
          LET merged == NewCookies(douyin_ck, merged_headers')
          IN  /\ IF merged # douyin_ck
                 THEN /\ douyin_ck' = merged
                      /\ ios_headers' = Some(merged)
                      /\ android_headers' = Some(merged)
                      /\ cookies_file' = Some(merged)
                 ELSE UNCHANGED <<douyin_ck, ios_headers, android_headers, cookies_file>>
              /\ CookiesAgree']_vars

\* The calls that returned a result, and the Set-Cookie headers of the
\* response each built it from.
ReturnedCalls == {c \in Calls : dpc[c] = "done" /\ outcome[c].kind = "returned"}

SetBy(c) == DirectiveParts(frame[c].resp.set_cookie)

\* The cookie string ck holds the names of parts with their last values.
Holds(ck, parts) ==
    \A n \in NamesIn(parts) :
        /\ n \in NamesIn(CookieParts(ck))
        /\ LastValue(CookieParts(ck), n) = LastValue(parts, n)

\* Call d merges its Set-Cookie headers in this step while call c, which
\* was sent cookies under other names, has merged its own, and the cookie
\* still holds them.
SecondMerge(c, d) ==
    /\ c # d
    /\ c \in ReturnedCalls
    /\ MergeStep(d)
    /\ NamesIn(SetBy(c)) # {}
    /\ NamesIn(DirectiveParts(merged_headers')) # {}
    /\ NamesIn(SetBy(c)) \cap NamesIn(DirectiveParts(merged_headers')) = {}
    /\ Holds(douyin_ck, SetBy(c))

\* ck holds what call c was sent and what the headers set.
HoldsBoth(ck, c, headers) == Holds(ck, SetBy(c)) /\ Holds(ck, DirectiveParts(headers))

\* No update of the instance cookie or of the header profiles is lost.
NoLostUpdateInMemory ==
    [][\A c, d \in Calls : SecondMerge(c, d) =>
          /\ HoldsBoth(douyin_ck', c, merged_headers')
          /\ HoldsBoth(Held(ios_headers'), c, merged_headers')
          /\ HoldsBoth(Held(android_headers'), c, merged_headers')]_vars

\* C15: when two concurrent calls each receive a response setting a
\* different cookie name, then in every interleaving the final instance
\* cookie, both header profiles and the persisted record hold both names
\* with the values set.
C15_NoLostUpdate ==
    [][\A c, d \in Calls : SecondMerge(c, d) =>
          /\ HoldsBoth(douyin_ck', c, merged_headers')
          /\ HoldsBoth(Held(ios_headers'), c, merged_headers')
          /\ HoldsBoth(Held(android_headers'), c, merged_headers')
          /\ HoldsBoth(Held(cookies_file'), c, merged_headers')]_vars

\* The requests of call c that parse_video made, in their order.
VideoRequests(c) == SelectSeq(trace[c], LAMBDA e : e.by = "parse_video")

\* Call c is over and its last method was m.
EndedIn(c, m) == dpc[c] = "done" /\ trace[c] # <<>> /\ Last(trace[c]).by = m

\* The mirror hosts, in the order of the spec.
HostOrder == <<<<"h","t","t","p","s",":","/","/","m",".","d","o","u","y","i","n",".","c","o","m","/">>, <<"h","t","t","p","s",":","/","/","w","w","w",".","i","e","s","d","o","u","y","i","n",".","c","o","m","/">>>>

\* C16: the mirrors are tried in a fixed order, m.douyin.com then
\* www.iesdouyin.com; a failure on one mirror, whatever it is (status,
\* payload missing or malformed, network), moves to the next, so a call
\* fails only after the last mirror; a call that returns has built its
\* result from the last mirror it requested and requests none after it.
C16_MirrorFallback ==
    \A c \in Calls :
        LET reqs == VideoRequests(c)
        IN  /\ \A i \in 1..Len(reqs) : i <= Len(HostOrder) /\ HasPrefixAt(reqs[i].url, 1, HostOrder[i])
            /\ (EndedIn(c, "parse_video") /\ outcome[c].kind = "raised")
                  => Len(reqs) = Len(HostOrder)
            /\ (EndedIn(c, "parse_video") /\ outcome[c].kind = "returned")
                  => /\ outcome[c].source = Last(trace[c]).url
                     /\ Last(trace[c]).status = 200

\* C17: when every mirror has failed, the call fails with ParseException
\* and returns no result; no mirror is requested twice in one call.
C17_AllMirrorsFail ==
    \A c \in Calls :
        LET reqs == VideoRequests(c)
        IN  /\ \A i, j \in 1..Len(reqs) : reqs[i].url = reqs[j].url => i = j
            /\ (EndedIn(c, "parse_video") /\ Len(reqs) = Len(HostOrder)
                   /\ outcome[c].kind = "raised")
                  => outcome[c] = Raised("ParseException")

\* The result call c returned, and the body it was built from.
ResultOf(c) == outcome[c].result[1]

BodyOf(c) == frame[c].resp.body

\* Call c returned a result from method m.
ReturnedFrom(c, m) == EndedIn(c, m) /\ outcome[c].kind = "returned"

\* C18: in parse_video a non-empty image set and a video url exclude each
\* other: with images the contents are one ImageContent per image url, in
\* payload order, and no video, even when a video url is present; without
\* images a video url gives exactly one VideoContent with its cover and
\* duration. No result holds both images and a video.
C18_ImagesExcludeVideo ==
    \A c \in Calls : ReturnedFrom(c, "parse_video") =>
        LET cs == ResultOf(c).contents
            image_urls == BodyOf(c).image_urls
            video_url == BodyOf(c).video_url
        IN  /\ image_urls # <<>> =>
                  /\ Len(cs) = Len(image_urls)
                  /\ \A i \in 1..Len(cs) :
                        /\ cs[i].cls = S_ImageContent
                        /\ cs[i].path_task = DownloadTask(image_urls[i])
            /\ (image_urls = <<>> /\ video_url # Nothing) =>
                  /\ Len(cs) = 1
                  /\ cs[1].cls = S_VideoContent
                  /\ cs[1].path_task = DownloadTask(video_url[1])
                  /\ cs[1].cover = DownloadTask(BodyOf(c).cover_url)
                  /\ cs[1].duration = BodyOf(c).duration
            /\ ~ \E i, j \in 1..Len(cs) :
                    cs[i].cls = S_ImageContent /\ cs[j].cls = S_VideoContent

C18_Witness ==
    /\ ReturnedFrom("c1", "parse_video")
    /\ BodyOf("c1") = P_both
    /\ Len(ResultOf("c1").contents) = 1

\* The content entry a slideshow item maps to.
EntryOf(item) ==
    IF item.variant = "image"
    THEN ImageContent(DownloadTask(item.url))
    ELSE DynamicContent(DownloadTask(item.url), RefNone)

\* C19: in parse_slides every item of the payload maps to exactly one
\* content entry and the contents are in payload order, images and short
\* animations interleaved as the payload has them.
C19_SlidesInPayloadOrder ==
    \A c \in Calls : ReturnedFrom(c, "parse_slides") =>
        LET cs == ResultOf(c).contents
            items == BodyOf(c).items
        IN  /\ Len(cs) = Len(items)
            /\ \A i \in 1..Len(cs) : cs[i] = EntryOf(items[i])

\* C20: a payload that decodes but holds no image, video or audio makes the
\* parse fail with ParseException: no result with empty contents is returned.
C20_NoEmptyResult ==
    \A c \in Calls : outcome[c].kind = "returned" => ResultOf(c).contents # <<>>

\* ------------------------------------------------------------------------
\* Properties of InstagramParser
\* ------------------------------------------------------------------------

\* The lines of the log of the running call with a given operation.
DidOp(lg, op) == SelectSeq(lg, LAMBDA d : d.op = op)

\* The call is suspended on a whole-post download or between two attempts.
AwaitsDownload == ipc \in {"download", "download_sleep"}

\* The call downloaded the post in vain and then raised.
FailedOnDownload ==
    /\ ipc = "done"
    /\ ig_outcome.kind = "raised"
    /\ DidOp(ilog, "ydl.download") # <<>>

\* C21: a parse call only schedules media fetches and never awaits one:
\* between its start and its return it is never suspended on a media
\* download, and it never fails because a media download failed.
C21_ParseNeverAwaitsMedia == ~AwaitsDownload /\ ~FailedOnDownload

InExtract == ipc \in {"extract", "extract_sleep"}

\* One step of _extract_info: a failed attempt k < 2 is followed by a sleep
\* of 1 + k seconds and attempt k + 1; the third failure raises the parse
\* error; any other end of an attempt starts no further attempt.
ExtractStep ==
    /\ (ipc = "extract" /\ ipc' # "extract") =>
          \/ /\ ipc' = "extract_sleep"
             /\ attempt < Retries
             /\ attempt' = attempt
             /\ ilog' = Append(ilog, Did("sleep", 1 + attempt, FALSE))
          \/ /\ ipc' = "done"
             /\ attempt = Retries
             /\ ig_outcome' = Raised("ParseException")
             /\ ilog' = ilog
          \/ /\ ipc' \in {"download", "done"}
             /\ DidOp(ilog', "extract_info") = DidOp(ilog, "extract_info")
             /\ DidOp(ilog', "sleep") = DidOp(ilog, "sleep")
    /\ (ipc = "extract_sleep" /\ ipc' # "extract_sleep") =>
          /\ ipc' = "extract"
          /\ attempt' = attempt + 1
          /\ ilog' = Append(ilog, Did("extract_info", attempt', FALSE))
    /\ (~InExtract /\ ipc # "idle" /\ ipc' # "idle") =>
          DidOp(ilog', "extract_info") = DidOp(ilog, "extract_info")
    /\ Len(DidOp(ilog', "extract_info")) <= Retries + 1

\* C22: _extract_info makes at most 3 attempts, returns at the first that
\* succeeds, sleeps 1 + k seconds after failed attempt k (k = 0, 1), raises
\* the parse error after the third failure, and always comes to an end.
C22_BoundedRetry == [][ExtractStep]_vars /\ (InExtract ~> ~InExtract)

\* The third attempt failed behind sleeps of 1 and 2 seconds.
C22_Witness ==
    /\ ipc = "done"
    /\ ig_outcome = Raised("ParseException")
    /\ ilog = <<Did("extract_info", 0, FALSE), Did("sleep", 1, FALSE),
                Did("extract_info", 1, FALSE), Did("sleep", 2, FALSE),
                Did("extract_info", 2, FALSE)>>

\* Line k of the log is a fetch: a download attempt or a merge.
IsFetch(d) == d.op \in {"ydl.download", "download_av_and_merge"}

\* C25: when the output file of a url exists, _download_with_ytdlp returns
\* it without a download attempt and the merge branch uses it without
\* scheduling a merge, so a request that follows a successful one for the
\* same url fetches nothing.
C25_CachedIsNotFetched ==
    \A k \in 1..Len(ilog) :
        /\ IsFetch(ilog[k]) => ~ilog[k].hit
        /\ (ilog[k].op = "_download_with_ytdlp" /\ ilog[k].hit) =>
              (k = Len(ilog) \/ ilog[k + 1].op # "ydl.download")

\* A call found both the merged file and the file of the post and fetched
\* nothing.
C25_Witness ==
    /\ ipc = "done"
    /\ \E k \in 1..Len(ilog) : ilog[k].op = "_download_with_ytdlp" /\ ilog[k].hit
    /\ \E k \in 1..Len(ig_contents) : ig_contents[k].path_task = APathTo(OutputPath(V_split))
    /\ \A k \in 1..Len(ilog) : ~IsFetch(ilog[k])

\* C27: the contents follow the entries of the payload: an entry gives at
\* most one content, an entry with no usable video, image or thumbnail gives
\* none, and the contents of two entries stand in the order of the entries.
C27_ContentsInEntryOrder ==
    /\ Len(origins) = Len(ig_contents)
    /\ \A k \in 1..Len(origins) :
          /\ origins[k] \in 0..Len(IterEntries(info))
          /\ origins[k] > 0 => ~Skipped(IterEntries(info)[origins[k]], IsVideoUrl(final_url))
    /\ \A j, k \in 1..Len(origins) :
          (j < k /\ origins[j] > 0 /\ origins[k] > 0) => origins[j] < origins[k]

\* Two entries gave a content each.
C27_Witness ==
    /\ ipc = "done"
    /\ ig_outcome.kind = "returned"
    /\ origins = <<1, 2>>
    /\ ig_contents[1].cls # ig_contents[2].cls

\* C28: one _parse call starts the download of the whole post at most once,
\* in the loop or behind it, and only for a url of a reel or a tv post.
C28_FallbackAtMostOnce ==
    /\ Len(DidOp(ilog, "_download_with_ytdlp")) <= 1
    /\ DidOp(ilog, "_download_with_ytdlp") # <<>> => IsVideoUrl(final_url)

\* The download was tried for the first of two entries with only a
\* thumbnail, failed, and was not tried for the second.
C28_Witness ==
    /\ ipc = "done"
    /\ IterEntries(info) = <<E_thumb, E_thumb>>
    /\ DidOp(ilog, "_download_with_ytdlp") = <<Did("_download_with_ytdlp", 1, FALSE)>>
    /\ Len(DidOp(ilog, "ydl.download")) = Retries + 1
    /\ Len(ig_contents) = 2
\* ------------------------------------------------------------------------
\* Properties of the registry's parser instances and of on_message
\* ------------------------------------------------------------------------

\* The classes _register_parser instantiates.
Enabled == EnabledClasses(all_subclass, enable_platforms)

EnabledSet == {Enabled[i] : i \in 1..Len(Enabled)}

KeywordsOf(cls) ==
    {KeyPatterns(cls, handle_order)[i].kw : i \in 1..Len(KeyPatterns(cls, handle_order))}

\* parser_map after _register_parser: every listed keyword has a parser, the
\* keywords of a platform share one instance of its class, a class has one
\* instance, and every parser is of an enabled platform.
InstancePerPlatform ==
    /\ \A i \in 1..Len(key_pattern_list) : key_pattern_list[i].kw \in DOMAIN parser_map
    /\ \A cls \in EnabledSet : \A k1, k2 \in KeywordsOf(cls) :
          /\ parser_map[k1] = parser_map[k2]
          /\ parser_map[k1].cls = cls
    /\ \A k1, k2 \in DOMAIN parser_map :
          parser_map[k1].cls = parser_map[k2].cls => parser_map[k1] = parser_map[k2]
    /\ \A k \in DOMAIN parser_map : DisplayName(parser_map[k].cls) \in enable_platforms

\* C23: one parser instance per enabled platform, shared by the platform's
\* keywords and kept from call to call; every keyword of key_pattern_list is
\* in parser_map and no parser of a disabled platform is.
C23_OneInstancePerPlatform ==
    /\ [](initialized => InstancePerPlatform)
    /\ [][initialized => parser_map' = parser_map]_vars

\* Two calls stand behind a match on two keywords of one platform, with
\* the other platform disabled, and hold the same instance.
C23_Witness ==
    /\ initialized
    /\ enable_platforms = {"Douyin"}
    /\ pc[1] = "matched" /\ pc[2] = "matched"
    /\ keyword[1] # keyword[2]
    /\ parser_map[keyword[1]] = parser_map[keyword[2]]

IsStep(s, op, hit) == s.op = op /\ s.hit = hit

HasOp(ss, op) == \E i \in 1..Len(ss) : ss[i].op = op

\* C26: parse is called only behind a match, a won (or no) arbitration and a
\* miss of the link debounce; send_parse_result only behind a returned
\* parse and a miss of the resource debounce; a call that returns early
\* calls neither, a call whose parse fails or whose resource is debounced
\* sends nothing.
C26_PipelineOrder ==
    \A c \in Callers :
        LET ss == steps[c] IN
        /\ (ReturnsEarly(event[c]) \/ searched[c] = NoMatch) => ss = <<>>
        /\ \A i \in 1..Len(ss) :
              /\ ss[i].op = "parse" =>
                    /\ i > 1 /\ IsStep(ss[i - 1], "hit_link", FALSE)
                    /\ \E j \in 1..(i - 1) :
                          ss[j].op = "no_arbiter" \/ IsStep(ss[j], "compete", TRUE)
                    /\ searched[c] # NoMatch
              /\ ss[i].op = "send_parse_result" =>
                    /\ i > 3 /\ IsStep(ss[i - 1], "hit_resource", FALSE)
                    /\ ss[i - 2].op = "parse_returned"
                    /\ \E j \in 1..(i - 3) : ss[j].op = "parse"
              /\ (IsStep(ss[i], "compete", FALSE) \/ ss[i].op = "bad_raw"
                     \/ IsStep(ss[i], "hit_link", TRUE)) =>
                    /\ i = Len(ss)
                    /\ pc[c] = "returned"
                    /\ ~HasOp(ss, "parse") /\ ~HasOp(ss, "send_parse_result")
              /\ (IsStep(ss[i], "hit_resource", TRUE) \/ ss[i].op = "parse_raised") =>
                    /\ i = Len(ss)
                    /\ pc[c] = "returned"
                    /\ ~HasOp(ss, "send_parse_result")

\* A group event went through the whole pipeline and is being sent.
C26_Witness ==
    /\ pc[1] = "sending"
    /\ Len(steps[1]) = 6
    /\ IsStep(steps[1][1], "compete", TRUE)
    /\ steps[1][6].op = "send_parse_result"

\* The enabled class that declares a binding.
BindingClasses(b) ==
    {cls \in EnabledSet : \E i \in 1..Len(KeyPatterns(cls, handle_order)) :
                              KeyPatterns(cls, handle_order)[i] = b}

\* C30: for every entry of key_pattern_list, parser_map[keyword] is an
\* instance of the class that declares the entry, and the parser a call
\* invokes is an instance of the class that declares the matched entry,
\* also when two enabled platforms bind the same keyword.
C30_ParserOfMatchedEntry ==
    initialized =>
        /\ \A i \in 1..Len(key_pattern_list) :
              parser_map[key_pattern_list[i].kw].cls \in BindingClasses(key_pattern_list[i])
        /\ \A c \in Callers : \A i \in 1..Len(steps[c]) :
              steps[c][i].op = "parse" =>
                  steps[c][i].parser.cls \in BindingClasses(key_pattern_list[scanlog[c].idx])
\* ------------------------------------------------------------------------
\* Properties of DouyinParser: the whole path of a short link
\* ------------------------------------------------------------------------

\* What the scan of on_message selects for a text when the listed platforms
\* are enabled and cls._key_patterns is in the given order.
Selects(text, enabled, order) ==
    ScanFrom(SortPatterns(CollectPatterns(EnabledClasses(<<"DouyinParser", "InstagramParser">>, enabled), order)), text, 1, ScanStart)

\* The call was started for the link of T_e2e, its short-link request was
\* answered with a redirect to the canonical video url, and the page of a
\* mirror was read and holds a video of duration 12.5 and no image.
FollowedToVideo(c) ==
    /\ dpc[c] = "done"
    /\ Len(trace[c]) >= 2
    /\ trace[c][1].by = "parse_with_redirect"
    /\ trace[c][1].status \in RedirectStatuses
    /\ trace[c][1].location = Some(T_video)
    /\ trace[c][1].url = S_https \o Search(PAT_v_douyin, T_e2e).group0
    /\ Last(trace[c]).by = "parse_video"
    /\ Last(trace[c]).status = 200
    /\ BodyOf(c).kind = "video_data"
    /\ BodyOf(c).image_urls = <<>>
    /\ BodyOf(c).video_url # Nothing
    /\ BodyOf(c).duration = FloatNum(125)

\* C24: "check this out https://v.douyin.com/abc123XY/" is matched under
\* "v.douyin", the short-link handler follows the redirect, and when the
\* target is a canonical video url whose payload has a video of duration
\* 12.5 and no images, the result is of platform "douyin" and holds exactly
\* one content, a VideoContent of duration 12.5.
C24_EndToEnd ==
    \A c \in Calls : FollowedToVideo(c) =>
        /\ \A order \in HandleOrders, enabled \in {{"Douyin"}, {"Douyin", "Instagram"}} :
              /\ Selects(T_e2e, enabled, order).keyword = KW_v_douyin
              /\ Selects(T_e2e, enabled, order).searched = Search(PAT_v_douyin, T_e2e)
        /\ HandlerOf(KW_v_douyin) = "_parse_short_link"
        /\ outcome[c].kind = "returned"
        /\ ResultOf(c).platform.name = S_douyin
        /\ Len(ResultOf(c).contents) = 1
        /\ ResultOf(c).contents[1].cls = S_VideoContent
        /\ ResultOf(c).contents[1].duration = FloatNum(125)

C24_Witness ==
    /\ FollowedToVideo("c1")
    /\ Len(trace["c1"]) = 2
    /\ outcome["c1"].kind = "returned"

====
